---- MODULE Spec2Model ----
(***************************************************************************)
(* Model of the Deterministic AI UI Builder: the agent pipeline            *)
(* (planner -> generator -> explainer -> version store append), the        *)
(* replay and rollback routes and the in-memory version store.             *)
(*                                                                         *)
(* Strings are sequences of one-character strings, so that the regular     *)
(* expressions, trimming, escaping and serialisation of the source are     *)
(* computed on characters.  The backtick is written BT.                    *)
(***************************************************************************)
EXTENDS Integers, Sequences, FiniteSets, TLC

(***************************************************************************)
(* Characters                                                              *)
(***************************************************************************)
BT == "BACKTICK"

LowerOf ==
    "A" :> "a" @@ "B" :> "b" @@ "C" :> "c" @@ "D" :> "d" @@ "E" :> "e" @@ "F" :> "f" @@
    "G" :> "g" @@ "H" :> "h" @@ "I" :> "i" @@ "J" :> "j" @@ "K" :> "k" @@ "L" :> "l" @@
    "M" :> "m" @@ "N" :> "n" @@ "O" :> "o" @@ "P" :> "p" @@ "Q" :> "q" @@ "R" :> "r" @@
    "S" :> "s" @@ "T" :> "t" @@ "U" :> "u" @@ "V" :> "v" @@ "W" :> "w" @@ "X" :> "x" @@
    "Y" :> "y" @@ "Z" :> "z"

UpperOf ==
    "a" :> "A" @@ "b" :> "B" @@ "c" :> "C" @@ "d" :> "D" @@ "e" :> "E" @@ "f" :> "F" @@
    "g" :> "G" @@ "h" :> "H" @@ "i" :> "I" @@ "j" :> "J" @@ "k" :> "K" @@ "l" :> "L" @@
    "m" :> "M" @@ "n" :> "N" @@ "o" :> "O" @@ "p" :> "P" @@ "q" :> "Q" @@ "r" :> "R" @@
    "s" :> "S" @@ "t" :> "T" @@ "u" :> "U" @@ "v" :> "V" @@ "w" :> "W" @@ "x" :> "X" @@
    "y" :> "Y" @@ "z" :> "Z"

\* String.prototype.charCodeAt for the characters the model uses.
CharCode ==
    " " :> 32 @@ "!" :> 33 @@ "\"" :> 34 @@ "#" :> 35 @@ "$" :> 36 @@ "%" :> 37 @@
    "&" :> 38 @@ "'" :> 39 @@ "(" :> 40 @@ ")" :> 41 @@ "*" :> 42 @@ "+" :> 43 @@
    "," :> 44 @@ "-" :> 45 @@ "." :> 46 @@ "/" :> 47 @@ "0" :> 48 @@ "1" :> 49 @@
    "2" :> 50 @@ "3" :> 51 @@ "4" :> 52 @@ "5" :> 53 @@ "6" :> 54 @@ "7" :> 55 @@
    "8" :> 56 @@ "9" :> 57 @@ ":" :> 58 @@ ";" :> 59 @@ "<" :> 60 @@ "=" :> 61 @@
    ">" :> 62 @@ "?" :> 63 @@ "@" :> 64 @@ "A" :> 65 @@ "B" :> 66 @@ "C" :> 67 @@
    "D" :> 68 @@ "E" :> 69 @@ "F" :> 70 @@ "G" :> 71 @@ "H" :> 72 @@ "I" :> 73 @@
    "J" :> 74 @@ "K" :> 75 @@ "L" :> 76 @@ "M" :> 77 @@ "N" :> 78 @@ "O" :> 79 @@
    "P" :> 80 @@ "Q" :> 81 @@ "R" :> 82 @@ "S" :> 83 @@ "T" :> 84 @@ "U" :> 85 @@
    "V" :> 86 @@ "W" :> 87 @@ "X" :> 88 @@ "Y" :> 89 @@ "Z" :> 90 @@ "[" :> 91 @@
    "\\" :> 92 @@ "]" :> 93 @@ "^" :> 94 @@ "_" :> 95 @@ BT :> 96 @@ "a" :> 97 @@
    "b" :> 98 @@ "c" :> 99 @@ "d" :> 100 @@ "e" :> 101 @@ "f" :> 102 @@ "g" :> 103 @@
    "h" :> 104 @@ "i" :> 105 @@ "j" :> 106 @@ "k" :> 107 @@ "l" :> 108 @@ "m" :> 109 @@
    "n" :> 110 @@ "o" :> 111 @@ "p" :> 112 @@ "q" :> 113 @@ "r" :> 114 @@ "s" :> 115 @@
    "t" :> 116 @@ "u" :> 117 @@ "v" :> 118 @@ "w" :> 119 @@ "x" :> 120 @@ "y" :> 121 @@
    "z" :> 122 @@ "{" :> 123 @@ "|" :> 124 @@ "}" :> 125 @@ "~" :> 126 @@ "\n" :> 10

LowerLetters == DOMAIN UpperOf
UpperLetters == DOMAIN LowerOf
Digits == {"0", "1", "2", "3", "4", "5", "6", "7", "8", "9"}
\* \w and \s of a JavaScript regular expression (on the model's characters).
WordChars == LowerLetters \cup UpperLetters \cup Digits \cup {"_"}
WhiteSpace == {" ", "\n", "\t", "\r"}

Lower(c) == IF c \in DOMAIN LowerOf THEN LowerOf[c] ELSE c
Upper(c) == IF c \in DOMAIN UpperOf THEN UpperOf[c] ELSE c
toLowerCase(s) == [i \in 1..Len(s) |-> Lower(s[i])]
toUpperCase(s) == [i \in 1..Len(s) |-> Upper(s[i])]

\* The text s[from..], as String.prototype.slice(from - 1).
Drop(s, n) == SubSeq(s, n + 1, Len(s))
Take(s, n) == SubSeq(s, 1, IF n < Len(s) THEN n ELSE Len(s))

RECURSIVE Concat(_)
\* Array.prototype.join("") of a sequence of strings.
Concat(ss) == IF ss = << >> THEN << >> ELSE Head(ss) \o Concat(Tail(ss))

RECURSIVE Join(_, _)
\* Array.prototype.join(sep).
Join(ss, sep) ==
    IF ss = << >> THEN << >>
    ELSE IF Len(ss) = 1 THEN ss[1]
    ELSE ss[1] \o sep \o Join(Tail(ss), sep)

\* s has pat at position i (1-based).
MatchAt(s, i, pat) ==
    /\ i >= 1
    /\ i + Len(pat) - 1 <= Len(s)
    /\ \A j \in 1..Len(pat) : s[i + j - 1] = pat[j]

\* String.prototype.includes.
includes(s, pat) == \E i \in 1..(Len(s) - Len(pat) + 1) : MatchAt(s, i, pat)

\* String.prototype.replace(/[...]/g, "") : drop every character of the class.
RemoveChars(s, class) == SelectSeq(s, LAMBDA c : c \notin class)

\* String.prototype.replace(/[^...]/g, " ").
ReplaceOutside(s, class, by) == [i \in 1..Len(s) |-> IF s[i] \in class THEN s[i] ELSE by]

\* The members of a set of integers in increasing order.
Sorted(idx) ==
    [k \in 1..Cardinality(idx) |-> CHOOSE i \in idx : Cardinality({j \in idx : j <= i}) = k]

\* The entries of xs at the indices that satisfy Keep, in order.
SelectIdx(xs, Keep(_)) ==
    LET at == Sorted({i \in 1..Len(xs) : Keep(i)})
    IN [k \in 1..Len(at) |-> xs[at[k]]]

\* String.prototype.trim.
trim(s) ==
    LET inked == {i \in 1..Len(s) : s[i] \notin WhiteSpace}
    IN IF inked = {} THEN << >>
       ELSE SubSeq(s, CHOOSE i \in inked : \A j \in inked : i <= j,
                      CHOOSE i \in inked : \A j \in inked : j <= i)

\* String.prototype.split on every single character of class: the pieces
\* between consecutive separator characters, empty pieces included.
SplitAny(s, class) ==
    LET seps == Sorted({i \in 1..Len(s) : s[i] \in class})
        from(k) == IF k = 1 THEN 1 ELSE seps[k - 1] + 1
        upto(k) == IF k = Len(seps) + 1 THEN Len(s) ELSE seps[k] - 1
    IN [k \in 1..(Len(seps) + 1) |-> SubSeq(s, from(k), upto(k))]

\* String.prototype.split(c) for one separator character c.
SplitChar(s, c) == SplitAny(s, {c})

\* String.prototype.split(/[class]+/): a run of separators separates once, so
\* the empty pieces between two adjacent separators go; a leading and a
\* trailing empty piece stay.
SplitRuns(s, class) ==
    LET pieces == SplitAny(s, class)
    IN SelectIdx(pieces, LAMBDA k : pieces[k] # << >> \/ k = 1 \/ k = Len(pieces))

\* Array.from(new Set(xs)): first occurrences, in order.
Uniq(xs) == SelectIdx(xs, LAMBDA i : \A j \in 1..(i - 1) : xs[j] # xs[i])

RECURSIVE NatToStr(_)
\* String(n) for a natural number n.
NatToStr(n) ==
    LET d == <<"0", "1", "2", "3", "4", "5", "6", "7", "8", "9">>[(n % 10) + 1]
    IN IF n < 10 THEN << d >> ELSE Append(NatToStr(n \div 10), d)
IntToStr(n) == IF n < 0 THEN << "-" >> \o NatToStr(0 - n) ELSE NatToStr(n)

\* ---- literal texts: begin
\* The literal texts of the source, as character sequences.
Txt_mode == <<"m","o","d","e">>
Txt_root == <<"r","o","o","t">>
Txt_modificationInstructions ==
    <<"m","o","d","i","f","i","c","a","t","i","o","n","I","n","s","t","r","u","c","t","i",
    "o","n","s">>
Txt_id == <<"i","d">>
Txt_component == <<"c","o","m","p","o","n","e","n","t">>
Txt_props == <<"p","r","o","p","s">>
Txt_children == <<"c","h","i","l","d","r","e","n">>
Txt_label == <<"l","a","b","e","l">>
Txt_variant == <<"v","a","r","i","a","n","t">>
Txt_title == <<"t","i","t","l","e">>
Txt_placeholder == <<"p","l","a","c","e","h","o","l","d","e","r">>
Txt_value == <<"v","a","l","u","e">>
Txt_columns == <<"c","o","l","u","m","n","s">>
Txt_rows == <<"r","o","w","s">>
Txt_open == <<"o","p","e","n">>
Txt_items == <<"i","t","e","m","s">>
Txt_links == <<"l","i","n","k","s">>
Txt_data == <<"d","a","t","a">>
Txt_stack == <<"s","t","a","c","k">>
Txt_grid == <<"g","r","i","d">>
Txt_split == <<"s","p","l","i","t">>
Txt_primary == <<"p","r","i","m","a","r","y">>
Txt_secondary == <<"s","e","c","o","n","d","a","r","y">>
Txt_Button == <<"B","u","t","t","o","n">>
Txt_Card == <<"C","a","r","d">>
Txt_Input == <<"I","n","p","u","t">>
Txt_Table == <<"T","a","b","l","e">>
Txt_Modal == <<"M","o","d","a","l">>
Txt_Sidebar == <<"S","i","d","e","b","a","r">>
Txt_Navbar == <<"N","a","v","b","a","r">>
Txt_Chart == <<"C","h","a","r","t">>
Txt_invalidPropsFor == <<":"," ","i","n","v","a","l","i","d"," ","p","r","o","p","s"," ","f","o","r"," ">>
Txt_colonSpace == <<":"," ">>
Txt_doesNotAllowChildren ==
    <<" ","d","o","e","s"," ","n","o","t"," ","a","l","l","o","w"," ","c","h","i","l","d",
    "r","e","n">>
Txt_dotChildren == <<".","c","h","i","l","d","r","e","n","[">>
Txt_closeBracket == <<"]">>
Txt_invalidPlanSchema == <<"I","n","v","a","l","i","d"," ","p","l","a","n"," ","s","c","h","e","m","a">>
Txt_semicolonSpace == <<";"," ">>
Txt_expectedObjectReceived ==
    <<"E","x","p","e","c","t","e","d"," ","o","b","j","e","c","t",","," ","r","e","c","e",
    "i","v","e","d"," ">>
Txt_create == <<"c","r","e","a","t","e">>
Txt_build == <<"b","u","i","l","d">>
Txt_make == <<"m","a","k","e">>
Txt_design == <<"d","e","s","i","g","n">>
Txt_generate == <<"g","e","n","e","r","a","t","e">>
Txt_ui == <<"u","i">>
Txt_page == <<"p","a","g","e">>
Txt_screen == <<"s","c","r","e","e","n">>
Txt_dashboard == <<"d","a","s","h","b","o","a","r","d">>
Txt_app == <<"a","p","p">>
Txt_website == <<"w","e","b","s","i","t","e">>
Txt_for == <<"f","o","r">>
Txt_with == <<"w","i","t","h">>
Txt_and == <<"a","n","d">>
Txt_the == <<"t","h","e">>
Txt_a == <<"a">>
Txt_an == <<"a","n">>
Txt_to == <<"t","o">>
Txt_of == <<"o","f">>
Txt_in == <<"i","n">>
Txt_on == <<"o","n">>
Txt_from == <<"f","r","o","m">>
Txt_that == <<"t","h","a","t">>
Txt_this == <<"t","h","i","s">>
Txt_minimal == <<"m","i","n","i","m","a","l">>
Txt_simple == <<"s","i","m","p","l","e">>
Txt_clean == <<"c","l","e","a","n">>
Txt_single_column == <<"s","i","n","g","l","e"," ","c","o","l","u","m","n">>
Txt_cards_layout == <<"c","a","r","d","s"," ","l","a","y","o","u","t">>
Txt_two_columns == <<"t","w","o"," ","c","o","l","u","m","n","s">>
Txt_navbar == <<"n","a","v","b","a","r">>
Txt_header == <<"h","e","a","d","e","r">>
Txt_top_nav == <<"t","o","p"," ","n","a","v">>
Txt_navigation == <<"n","a","v","i","g","a","t","i","o","n">>
Txt_sidebar == <<"s","i","d","e","b","a","r">>
Txt_side_nav == <<"s","i","d","e"," ","n","a","v">>
Txt_left_nav == <<"l","e","f","t"," ","n","a","v">>
Txt_card == <<"c","a","r","d">>
Txt_panel == <<"p","a","n","e","l">>
Txt_widget == <<"w","i","d","g","e","t">>
Txt_section == <<"s","e","c","t","i","o","n">>
Txt_input == <<"i","n","p","u","t">>
Txt_field == <<"f","i","e","l","d">>
Txt_form == <<"f","o","r","m">>
Txt_search == <<"s","e","a","r","c","h">>
Txt_textbox == <<"t","e","x","t","b","o","x">>
Txt_text_box == <<"t","e","x","t"," ","b","o","x">>
Txt_login == <<"l","o","g","i","n">>
Txt_signup == <<"s","i","g","n","u","p">>
Txt_register == <<"r","e","g","i","s","t","e","r">>
Txt_button == <<"b","u","t","t","o","n">>
Txt_cta == <<"c","t","a">>
Txt_submit == <<"s","u","b","m","i","t">>
Txt_action == <<"a","c","t","i","o","n">>
Txt_table == <<"t","a","b","l","e">>
Txt_list == <<"l","i","s","t">>
Txt_grid_data == <<"g","r","i","d"," ","d","a","t","a">>
Txt_modal == <<"m","o","d","a","l">>
Txt_dialog == <<"d","i","a","l","o","g">>
Txt_popup == <<"p","o","p","u","p">>
Txt_chart == <<"c","h","a","r","t">>
Txt_graph == <<"g","r","a","p","h">>
Txt_analytics == <<"a","n","a","l","y","t","i","c","s">>
Txt_stats == <<"s","t","a","t","s">>
Txt_trend == <<"t","r","e","n","d">>
Txt_metrics == <<"m","e","t","r","i","c","s">>
Txt_admin == <<"a","d","m","i","n">>
Txt_portal == <<"p","o","r","t","a","l">>
Txt_console == <<"c","o","n","s","o","l","e">>
Txt_sign_in == <<"s","i","g","n"," ","i","n">>
Txt_auth == <<"a","u","t","h">>
Txt_feed == <<"f","e","e","d">>
Txt_social == <<"s","o","c","i","a","l">>
Txt_linkedin == <<"l","i","n","k","e","d","i","n">>
Txt_twitter == <<"t","w","i","t","t","e","r">>
Txt_instagram == <<"i","n","s","t","a","g","r","a","m">>
Txt_ecommerce == <<"e","c","o","m","m","e","r","c","e">>
Txt_store == <<"s","t","o","r","e">>
Txt_shop == <<"s","h","o","p">>
Txt_settings == <<"s","e","t","t","i","n","g","s">>
Txt_preferences == <<"p","r","e","f","e","r","e","n","c","e","s">>
Txt_settings_dialog == <<"s","e","t","t","i","n","g","s"," ","d","i","a","l","o","g">>
Txt_settings_popup == <<"s","e","t","t","i","n","g","s"," ","p","o","p","u","p">>
Txt_convert_to == <<"c","o","n","v","e","r","t"," ","t","o">>
Txt_change_to == <<"c","h","a","n","g","e"," ","t","o">>
Txt_make_it_like == <<"m","a","k","e"," ","i","t"," ","l","i","k","e">>
Txt_turn_into == <<"t","u","r","n"," ","i","n","t","o">>
Txt_add == <<"a","d","d">>
Txt_include == <<"i","n","c","l","u","d","e">>
Txt_insert == <<"i","n","s","e","r","t">>
Txt_regenerate == <<"r","e","g","e","n","e","r","a","t","e">>
Txt_scratch == <<"s","c","r","a","t","c","h">>
Txt_Workspace == <<"W","o","r","k","s","p","a","c","e">>
Txt_space == <<" ">>
Txt_dash == <<"-">>
Txt_UI == <<" ","U","I">>
Txt_Menu == <<" ","M","e","n","u">>
Txt_Authentication == <<" ","A","u","t","h","e","n","t","i","c","a","t","i","o","n">>
Txt_Controls == <<" ","C","o","n","t","r","o","l","s">>
Txt_TableSuffix == <<" ","T","a","b","l","e">>
Txt_MetricsSuffix == <<" ","M","e","t","r","i","c","s">>
Txt_SettingsSuffix == <<" ","S","e","t","t","i","n","g","s">>
Txt_PanelSuffix == <<" ","P","a","n","e","l">>
Txt_InputSuffix == <<" ","I","n","p","u","t">>
Txt_itemsSuffix == <<" ","i","t","e","m","s">>
Txt_Email == <<"E","m","a","i","l">>
Txt_emailPlaceholder == <<"y","o","u","@","e","x","a","m","p","l","e",".","c","o","m">>
Txt_Password == <<"P","a","s","s","w","o","r","d">>
Txt_EnterPassword == <<"E","n","t","e","r"," ","p","a","s","s","w","o","r","d">>
Txt_CreateAccount == <<"C","r","e","a","t","e"," ","A","c","c","o","u","n","t">>
Txt_SignIn == <<"S","i","g","n"," ","I","n">>
Txt_Search == <<"S","e","a","r","c","h">>
Txt_SearchSpace == <<"S","e","a","r","c","h"," ">>
Txt_FindSpace == <<"F","i","n","d"," ">>
Txt_DisplayName == <<"D","i","s","p","l","a","y"," ","N","a","m","e">>
Txt_Save == <<"S","a","v","e">>
Txt_Continue == <<"C","o","n","t","i","n","u","e">>
Txt_Name == <<"N","a","m","e">>
Txt_Status == <<"S","t","a","t","u","s">>
Txt_Action == <<"A","c","t","i","o","n">>
Txt_Item == <<"I","t","e","m">>
Txt_Owner == <<"O","w","n","e","r">>
Txt_sufA == <<" ","A">>
Txt_sufB == <<" ","B">>
Txt_sufC == <<" ","C">>
Txt_sufD == <<" ","D">>
Txt_suf1 == <<" ","1">>
Txt_suf2 == <<" ","2">>
Txt_MinimalUI == <<"M","i","n","i","m","a","l"," ","U","I">>
Txt_Home == <<"H","o","m","e">>
Txt_Settings == <<"S","e","t","t","i","n","g","s">>
Txt_Theme == <<"T","h","e","m","e">>
Txt_LightOrDark == <<"L","i","g","h","t"," ","o","r"," ","D","a","r","k">>
Txt_Apply == <<"A","p","p","l","y">>
Txt_modalDash == <<"m","o","d","a","l","-">>
Txt_inputDash == <<"i","n","p","u","t","-">>
Txt_saveDash == <<"s","a","v","e","-">>
Txt_ConvertedPrefix ==
    <<"C","o","n","v","e","r","t","e","d"," ","U","I"," ","b","a","s","e","d"," ","o","n",
    " ","r","e","q","u","e","s","t",":"," ">>
Txt_ignore == <<"i","g","n","o","r","e">>
Txt_all == <<"a","l","l">>
Txt_instructions == <<"i","n","s","t","r","u","c","t","i","o","n","s">>
Txt_system == <<"s","y","s","t","e","m">>
Txt_prompt == <<"p","r","o","m","p","t">>
Txt_developer == <<"d","e","v","e","l","o","p","e","r">>
Txt_message == <<"m","e","s","s","a","g","e">>
Txt_execute == <<"e","x","e","c","u","t","e">>
Txt_code == <<"c","o","d","e">>
Txt_bypass == <<"b","y","p","a","s","s">>
Txt_safety == <<"s","a","f","e","t","y">>
Txt_sanitized ==
    <<"P","r","o","m","p","t"," ","i","n","j","e","c","t","i","o","n"," ","p","a","t","t",
    "e","r","n","s"," ","w","e","r","e"," ","s","a","n","i","t","i","z","e","d">>
Txt_lt == <<"<">>
Txt_spreadOpen == <<" ","{",".",".",".">>
Txt_spreadCloseOpen == <<"}",">">>
Txt_spreadCloseSelf == <<"}"," ","/",">">>
Txt_ltSlash == <<"<","/">>
Txt_gt == <<">">>
Txt_nl == <<"\n">>
Txt_classStack == <<"s","p","a","c","e","-","y","-","4">>
Txt_classGrid ==
    <<"g","r","i","d"," ","g","r","i","d","-","c","o","l","s","-","1"," ","g","a","p","-",
    "4"," ","m","d",":","g","r","i","d","-","c","o","l","s","-","2">>
Txt_classSplit ==
    <<"g","r","i","d"," ","g","r","i","d","-","c","o","l","s","-","1"," ","g","a","p","-",
    "4"," ","l","g",":","g","r","i","d","-","c","o","l","s","-","[","2","6","0","p","x",
    "_","1","f","r","]">>
Txt_sectionOpen ==
    <<"\n"," "," "," "," ","<","s","e","c","t","i","o","n"," ","c","l","a","s","s","N",
    "a","m","e","=","\"">>
Txt_sectionMid == <<"\"",">","\n">>
Txt_sectionClose == <<"\n"," "," "," "," ","<","/","s","e","c","t","i","o","n",">","\n"," "," ">>
Txt_importOpen == <<"i","m","p","o","r","t"," ","{"," ">>
Txt_importClose ==
    <<" ","}"," ","f","r","o","m"," ","\"","@","/","c","o","m","p","o","n","e","n","t",
    "s","/","u","i","\"",";">>
Txt_commaSpace == <<","," ">>
Txt_comma == <<",">>
Txt_planOpen ==
    <<"\n","\n","c","o","n","s","t"," ","u","i","P","l","a","n","J","s","o","n"," ","=",
    " ",BT>>
Txt_planClose ==
    <<BT,";","\n","\n","e","x","p","o","r","t"," ","d","e","f","a","u","l","t"," ","f",
    "u","n","c","t","i","o","n"," ","G","e","n","e","r","a","t","e","d","U","I","(",")",
    " ","{","\n"," "," ","r","e","t","u","r","n"," ","(","\n"," "," "," "," ","<","m",
    "a","i","n"," ","c","l","a","s","s","N","a","m","e","=","\"","s","p","a","c","e",
    "-","y","-","4","\"",">","\n">>
Txt_codeClose == <<"\n"," "," "," "," ","<","/","m","a","i","n",">","\n"," "," ",")",";","\n","}","\n">>
Txt_invalidPlanPrefix ==
    <<"G","e","n","e","r","a","t","o","r"," ","r","e","c","e","i","v","e","d"," ","i","n",
    "v","a","l","i","d"," ","p","l","a","n",":"," ">>
Txt_whitelistPrefix ==
    <<"C","o","m","p","o","n","e","n","t"," ","w","h","i","t","e","l","i","s","t"," ","v",
    "i","o","l","a","t","i","o","n",":"," ">>
Txt_safetyPrefix ==
    <<"G","e","n","e","r","a","t","e","d"," ","c","o","d","e"," ","f","a","i","l","e","d",
    " ","s","a","f","e","t","y"," ","c","h","e","c","k","s",":"," ">>
Txt_uiImport ==
    <<"f","r","o","m"," ","\"","@","/","c","o","m","p","o","n","e","n","t","s","/","u",
    "i","\"">>
Txt_uiPath == <<"@","/","c","o","m","p","o","n","e","n","t","s","/","u","i">>
Txt_styleOpen == <<"s","t","y","l","e","=","{","{">>
Txt_dangerous ==
    <<"d","a","n","g","e","r","o","u","s","l","y","S","e","t","I","n","n","e","r","H","T",
    "M","L">>
Txt_mustImport ==
    <<"G","e","n","e","r","a","t","e","d"," ","c","o","d","e"," ","m","u","s","t"," ","i",
    "m","p","o","r","t"," ","f","r","o","m"," ","d","e","t","e","r","m","i","n","i","s",
    "t","i","c"," ","U","I"," ","l","i","b","r","a","r","y">>
Txt_nonWhitelisted ==
    <<"G","e","n","e","r","a","t","e","d"," ","c","o","d","e"," ","c","o","n","t","a","i",
    "n","s"," ","n","o","n","-","w","h","i","t","e","l","i","s","t","e","d"," ","i","m",
    "p","o","r","t","s">>
Txt_inlineForbidden ==
    <<"I","n","l","i","n","e"," ","s","t","y","l","e","s"," ","a","r","e"," ","f","o","r",
    "b","i","d","d","e","n">>
Txt_dangerousForbidden ==
    <<"d","a","n","g","e","r","o","u","s","l","y","S","e","t","I","n","n","e","r","H","T",
    "M","L"," ","i","s"," ","f","o","r","b","i","d","d","e","n">>
Txt_classNameDyn == <<"c","l","a","s","s","N","a","m","e","=","{",BT>>
Txt_import == <<"i","m","p","o","r","t">>
Txt_GeneratedUI == <<"G","e","n","e","r","a","t","e","d","U","I">>
Txt_dangerous_html == <<"d","a","n","g","e","r","o","u","s","-","h","t","m","l">>
Txt_inline_style == <<"i","n","l","i","n","e","-","s","t","y","l","e">>
Txt_dynamic_class == <<"d","y","n","a","m","i","c","-","c","l","a","s","s">>
Txt_illegal_component == <<"i","l","l","e","g","a","l","-","c","o","m","p","o","n","e","n","t">>
Txt_missing_component == <<"m","i","s","s","i","n","g","-","c","o","m","p","o","n","e","n","t">>
Txt_cleanCode == <<"c","l","e","a","n">>
Txt_layoutMode == <<"L","a","y","o","u","t"," ","m","o","d","e",":"," ">>
Txt_layoutTail ==
    <<" ","w","a","s"," ","s","e","l","e","c","t","e","d"," ","t","o"," ","m","a","t","c",
    "h"," ","t","h","e"," ","r","e","q","u","e","s","t","e","d"," ","i","n","f","o","r",
    "m","a","t","i","o","n"," ","d","e","n","s","i","t","y"," ","a","n","d"," ","h","i",
    "e","r","a","r","c","h","y",".">>
Txt_selection == <<"C","o","m","p","o","n","e","n","t"," ","s","e","l","e","c","t","i","o","n",":"," ">>
Txt_selectionTail ==
    <<"."," ","A","l","l"," ","c","o","m","p","o","n","e","n","t","s"," ","c","o","m","e",
    " ","f","r","o","m"," ","t","h","e"," ","f","i","x","e","d"," ","d","e","t","e","r",
    "m","i","n","i","s","t","i","c"," ","l","i","b","r","a","r","y",".">>
Txt_incremental ==
    <<"T","h","i","s"," ","i","s"," ","a","n"," ","i","n","c","r","e","m","e","n","t","a",
    "l"," ","e","d","i","t","."," ","E","x","i","s","t","i","n","g"," ","p","l","a","n",
    " ","s","t","r","u","c","t","u","r","e"," ","w","a","s"," ","p","r","e","s","e","r",
    "v","e","d"," ","a","n","d"," ","o","n","l","y"," ","r","e","q","u","e","s","t","e",
    "d"," ","s","e","c","t","i","o","n","s"," ","w","e","r","e"," ","u","p","d","a","t",
    "e","d",".">>
Txt_baseline ==
    <<"T","h","i","s"," ","w","a","s"," ","g","e","n","e","r","a","t","e","d"," ","a","s",
    " ","a"," ","n","e","w"," ","b","a","s","e","l","i","n","e"," ","s","c","r","e","e",
    "n",".">>
Txt_level_error == <<"e","r","r","o","r">>
Txt_level_warning == <<"w","a","r","n","i","n","g">>
Txt_level_info == <<"i","n","f","o">>
Txt_msgDangerous ==
    <<"F","o","u","n","d"," ","f","o","r","b","i","d","d","e","n"," ","d","a","n","g","e",
    "r","o","u","s","l","y","S","e","t","I","n","n","e","r","H","T","M","L"," ","u","s",
    "a","g","e",".">>
Txt_msgInline ==
    <<"F","o","u","n","d"," ","f","o","r","b","i","d","d","e","n"," ","i","n","l","i","n",
    "e"," ","s","t","y","l","e"," ","u","s","a","g","e",".">>
Txt_msgDynamic ==
    <<"D","e","t","e","c","t","e","d"," ","d","y","n","a","m","i","c"," ","c","l","a","s",
    "s"," ","c","o","m","p","o","s","i","t","i","o","n",";"," ","r","e","v","i","e","w",
    " ","d","e","t","e","r","m","i","n","i","s","t","i","c"," ","s","t","y","l","i","n",
    "g"," ","c","o","n","s","t","r","a","i","n","t","s",".">>
Txt_msgIllegal ==
    <<"D","e","t","e","c","t","e","d"," ","n","o","n","-","w","h","i","t","e","l","i","s",
    "t","e","d"," ","J","S","X"," ","c","o","m","p","o","n","e","n","t","s",":"," ">>
Txt_msgMissing ==
    <<"G","e","n","e","r","a","t","e","d"," ","c","o","d","e"," ","d","o","e","s"," ","n",
    "o","t"," ","r","e","n","d","e","r"," ","s","o","m","e"," ","p","l","a","n","n","e",
    "d"," ","c","o","m","p","o","n","e","n","t","s",":"," ">>
Txt_msgClean ==
    <<"S","t","a","t","i","c"," ","a","n","a","l","y","s","i","s"," ","f","o","u","n","d",
    " ","n","o"," ","s","a","f","e","t","y"," ","o","r"," ","p","o","l","i","c","y"," ",
    "v","i","o","l","a","t","i","o","n","s",".">>
Txt_modify == <<"m","o","d","i","f","y">>
Txt_intentRequired == <<"I","n","t","e","n","t"," ","i","s"," ","r","e","q","u","i","r","e","d">>
Txt_sourceRequired ==
    <<"s","o","u","r","c","e","V","e","r","s","i","o","n","I","d"," ","i","s"," ","r","e",
    "q","u","i","r","e","d">>
Txt_sourceNotFound ==
    <<"S","o","u","r","c","e"," ","v","e","r","s","i","o","n"," ","n","o","t"," ","f","o",
    "u","n","d">>
Txt_idRequired ==
    <<"V","e","r","s","i","o","n"," ","i","d"," ","i","s"," ","r","e","q","u","i","r","e",
    "d">>
Txt_versionNotFound == <<"V","e","r","s","i","o","n"," ","n","o","t"," ","f","o","u","n","d">>
Txt_replayOpen == <<"[","R","e","p","l","a","y"," ","f","r","o","m"," ">>
Txt_replayClose == <<"]","\n">>
Txt_plannerStarted == <<"P","l","a","n","n","e","r"," ","s","t","a","r","t","e","d">>
Txt_plannerCompleted == <<"P","l","a","n","n","e","r"," ","c","o","m","p","l","e","t","e","d">>
Txt_generatorCompleted == <<"G","e","n","e","r","a","t","o","r"," ","c","o","m","p","l","e","t","e","d">>
Txt_explainerCompleted == <<"E","x","p","l","a","i","n","e","r"," ","c","o","m","p","l","e","t","e","d">>
Txt_idPrefix == <<"v","_">>
Txt_underscore == <<"_">>
Txt_isoPrefix == <<"1","9","7","0","-","0","1","-","0","1","T","0","0",":","0","0",":">>
Txt_isoSuffix == <<"Z">>
Txt_dot == <<".">>
Txt_zero == <<"0">>
Txt_fetchFailed == <<"f","e","t","c","h"," ","f","a","i","l","e","d">>
Txt_unexpectedEnd ==
    <<"U","n","e","x","p","e","c","t","e","d"," ","e","n","d"," ","o","f"," ","J","S","O",
    "N"," ","i","n","p","u","t">>
\* ---- literal texts: end

(***************************************************************************)
(* Regular expressions.  A pattern is a sequence of items; a regular       *)
(* expression is a set of alternative patterns and the i flag.             *)
(***************************************************************************)
Lit(str)      == [k |-> "lit",  s |-> str,   set |-> {},  neg |-> FALSE]
One(class)    == [k |-> "one",  s |-> << >>, set |-> class, neg |-> FALSE]
OneNot(class) == [k |-> "one",  s |-> << >>, set |-> class, neg |-> TRUE]
Plus(class)   == [k |-> "plus", s |-> << >>, set |-> class, neg |-> FALSE]
PlusNot(class) == [k |-> "plus", s |-> << >>, set |-> class, neg |-> TRUE]
Star(class)   == [k |-> "star", s |-> << >>, set |-> class, neg |-> FALSE]
WB            == [k |-> "wb",   s |-> << >>, set |-> {},  neg |-> FALSE]
NotAhead(str) == [k |-> "nla",  s |-> str,   set |-> {},  neg |-> FALSE]

InClass(c, it) == IF it.neg THEN c \notin it.set ELSE c \in it.set

\* \b at position i: exactly one of s[i-1], s[i] is a word character.
AtWordBoundary(s, i) ==
    LET before == i > 1 /\ s[i - 1] \in WordChars
        after  == i <= Len(s) /\ s[i] \in WordChars
    IN before # after

\* The positions j > i such that s[i..j-1] lies in the class of it.
RunEnds(s, i, it) ==
    {j \in (i + 1)..(Len(s) + 1) : \A m \in i..(j - 1) : InClass(s[m], it)}

RECURSIVE EndsFrom(_, _, _, _)
\* The positions at which a match of pat[k..] that starts at i can end.
EndsFrom(s, i, pat, k) ==
    IF k > Len(pat) THEN {i}
    ELSE LET it == pat[k] IN
         CASE it.k = "lit" ->
                IF MatchAt(s, i, it.s) THEN EndsFrom(s, i + Len(it.s), pat, k + 1) ELSE {}
           [] it.k = "one" ->
                IF i <= Len(s) /\ InClass(s[i], it) THEN EndsFrom(s, i + 1, pat, k + 1) ELSE {}
           [] it.k = "plus" ->
                UNION {EndsFrom(s, j, pat, k + 1) : j \in RunEnds(s, i, it)}
           [] it.k = "star" ->
                UNION {EndsFrom(s, j, pat, k + 1) : j \in {i} \cup RunEnds(s, i, it)}
           [] it.k = "wb" ->
                IF AtWordBoundary(s, i) THEN EndsFrom(s, i, pat, k + 1) ELSE {}
           [] it.k = "nla" ->
                IF ~MatchAt(s, i, it.s) THEN EndsFrom(s, i, pat, k + 1) ELSE {}

Regex(alternatives)  == [alts |-> alternatives, i |-> FALSE]
RegexI(alternatives) == [alts |-> alternatives, i |-> TRUE]

\* RegExp.prototype.test.
test(re, str) ==
    LET s == IF re.i THEN toLowerCase(str) ELSE str
    IN \E a \in re.alts : \E p \in 1..(Len(s) + 1) : EndsFrom(s, p, a, 1) # {}

(***************************************************************************)
(* JSON values.  A plan, a node and its props are JavaScript objects: an   *)
(* object is the sequence of its <<key, value>> pairs in insertion order.  *)
(***************************************************************************)
JStr(s)   == [t |-> "string",  v |-> s]
JNum(n)   == [t |-> "number",  v |-> n]
JBool(b)  == [t |-> "boolean", v |-> b]
JArr(a)   == [t |-> "array",   v |-> a]
JObj(kv)  == [t |-> "object",  v |-> kv]
JNull     == [t |-> "null",      v |-> << >>]
Undefined == [t |-> "undefined", v |-> << >>]

HasKey(o, key) == o.t = "object" /\ \E i \in 1..Len(o.v) : o.v[i][1] = key
\* o[key], undefined when o has no such property.
Get(o, key) ==
    IF HasKey(o, key) THEN o.v[CHOOSE i \in 1..Len(o.v) : o.v[i][1] = key][2] ELSE Undefined
KeysOf(o) == {o.v[i][1] : i \in 1..Len(o.v)}
\* o[key] = val: replaces the property in place or adds it at the end.
Put(o, key, val) ==
    IF HasKey(o, key)
    THEN JObj([i \in 1..Len(o.v) |-> IF o.v[i][1] = key THEN <<key, val>> ELSE o.v[i]])
    ELSE JObj(Append(o.v, <<key, val>>))
\* { ...o, key: val }: same order as the assignment.
Spread(o, key, val) == Put(o, key, val)
StrList(ss) == JArr([i \in 1..Len(ss) |-> JStr(ss[i])])

(***************************************************************************)
(* JSON.parse and JSON.stringify, on characters.  Numbers are integers and *)
(* strings carry no \u escapes (the texts of the model have neither        *)
(* fractions nor code points outside ASCII).                               *)
(***************************************************************************)
JsonWs == {" ", "\n", "\t", "\r"}
Fail == [ok |-> FALSE, v |-> Undefined, i |-> 0]
Ok(val, next) == [ok |-> TRUE, v |-> val, i |-> next]

\* The first position from i on that holds no white space (Len(s) + 1 if none).
SkipWs(s, i) ==
    CHOOSE j \in i..(Len(s) + 1) :
        /\ j = Len(s) + 1 \/ s[j] \notin JsonWs
        /\ \A m \in i..(j - 1) : s[m] \in JsonWs

\* The character an escape \c stands for.
Unescape ==
    "\"" :> "\"" @@ "\\" :> "\\" @@ "/" :> "/" @@ "n" :> "\n" @@ "t" :> "\t" @@ "r" :> "\r"

\* The number of backslashes that stand directly before position p, not
\* looking further back than position i.
SlashesBefore(s, i, p) ==
    LET stop == CHOOSE q \in (i - 1)..(p - 1) :
                    /\ q = i - 1 \/ s[q] # "\\"
                    /\ \A m \in (q + 1)..(p - 1) : s[m] = "\\"
    IN p - 1 - stop

\* The rest of a string literal, from i (after the opening quote): it ends at
\* the first quote that an even number of backslashes precedes; a backslash
\* that an even number of backslashes precedes starts an escape.
ParseChars(s, i) ==
    LET closing == {j \in i..Len(s) : s[j] = "\"" /\ SlashesBefore(s, i, j) % 2 = 0}
        close == CHOOSE j \in closing : \A m \in closing : j <= m
        starts(p) == s[p] = "\\" /\ SlashesBefore(s, i, p) % 2 = 0
        escaped(p) == p > i /\ starts(p - 1)
        bad == \E p \in i..(close - 1) :
                  \/ escaped(p) /\ s[p] \notin DOMAIN Unescape
                  \/ s[p] \in {"\n", "\t", "\r"}
        at == Sorted({p \in i..(close - 1) : ~starts(p)})
    IN IF closing = {} THEN Fail
       ELSE IF bad THEN Fail
       ELSE Ok(JStr([k \in 1..Len(at) |->
                        IF escaped(at[k]) THEN Unescape[s[at[k]]] ELSE s[at[k]]]),
               close + 1)

RECURSIVE ParseDigits(_, _, _)
ParseDigits(s, i, acc) ==
    IF i <= Len(s) /\ s[i] \in Digits
    THEN ParseDigits(s, i + 1, acc * 10 + (CharCode[s[i]] - 48))
    ELSE Ok(JNum(acc), i)

ParseNumber(s, i) ==
    LET neg == s[i] = "-"
        j == IF neg THEN i + 1 ELSE i
    IN IF j > Len(s) \/ s[j] \notin Digits THEN Fail
       ELSE IF s[j] = "0" /\ j + 1 <= Len(s) /\ s[j + 1] \in Digits THEN Fail
       ELSE LET r == ParseDigits(s, j, 0)
            IN IF neg THEN Ok(JNum(0 - r.v.v), r.i) ELSE r

RECURSIVE ParseValue(_, _)
RECURSIVE ParseElements(_, _, _)
RECURSIVE ParseMembers(_, _, _)
RECURSIVE ElementsAfter(_, _, _)
RECURSIVE MemberAfterKey(_, _, _)
RECURSIVE MembersAfter(_, _, _, _)

\* The elements of an array after "[" or after a comma; acc holds those read.
ParseElements(s, i, acc) == ElementsAfter(s, acc, ParseValue(s, i))

\* The rest of ParseElements once the element r is read.
ElementsAfter(s, acc, r) ==
    LET j == SkipWs(s, r.i)
    IN IF ~r.ok \/ j > Len(s) THEN Fail
       ELSE IF s[j] = "," THEN ParseElements(s, j + 1, Append(acc, r.v))
       ELSE IF s[j] = "]" THEN Ok(JArr(Append(acc, r.v)), j + 1)
       ELSE Fail

\* The members of an object after "{" or after a comma; a repeated key keeps
\* its first position and takes the last value.
ParseMembers(s, i, acc) ==
    LET k0 == SkipWs(s, i)
    IN MemberAfterKey(s, acc,
           IF k0 <= Len(s) /\ s[k0] = "\"" THEN ParseChars(s, k0 + 1) ELSE Fail)

\* The rest of ParseMembers once the key is read.
MemberAfterKey(s, acc, key) ==
    LET c == SkipWs(s, key.i)
    IN MembersAfter(s, acc, key,
           IF key.ok /\ c <= Len(s) /\ s[c] = ":" THEN ParseValue(s, c + 1) ELSE Fail)

\* The rest of ParseMembers once the member key : r is read.
MembersAfter(s, acc, key, r) ==
    LET j == SkipWs(s, r.i)
    IN IF ~r.ok \/ j > Len(s) THEN Fail
       ELSE IF s[j] = "," THEN ParseMembers(s, j + 1, Put(acc, key.v.v, r.v))
       ELSE IF s[j] = "}" THEN Ok(Put(acc, key.v.v, r.v), j + 1)
       ELSE Fail

\* The JSON value that starts at or after i (white space skipped).
ParseValue(s, i) ==
    LET j == SkipWs(s, i) IN
    IF j > Len(s) THEN Fail
    ELSE IF s[j] = "{"
         THEN LET e == SkipWs(s, j + 1)
              IN IF e <= Len(s) /\ s[e] = "}" THEN Ok(JObj(<< >>), e + 1)
                 ELSE ParseMembers(s, j + 1, JObj(<< >>))
    ELSE IF s[j] = "["
         THEN LET e == SkipWs(s, j + 1)
              IN IF e <= Len(s) /\ s[e] = "]" THEN Ok(JArr(<< >>), e + 1)
                 ELSE ParseElements(s, j + 1, << >>)
    ELSE IF s[j] = "\"" THEN ParseChars(s, j + 1)
    ELSE IF s[j] = "-" \/ s[j] \in Digits THEN ParseNumber(s, j)
    ELSE IF MatchAt(s, j, <<"t", "r", "u", "e">>) THEN Ok(JBool(TRUE), j + 4)
    ELSE IF MatchAt(s, j, <<"f", "a", "l", "s", "e">>) THEN Ok(JBool(FALSE), j + 5)
    ELSE IF MatchAt(s, j, <<"n", "u", "l", "l">>) THEN Ok(JNull, j + 4)
    ELSE Fail

\* The result of JSON.parse once the value r is read: nothing but white
\* space may follow it.
WholeText(text, r) ==
    IF r.ok /\ SkipWs(text, r.i) = Len(text) + 1 THEN [ok |-> TRUE, v |-> r.v]
    ELSE [ok |-> FALSE, v |-> Undefined]

\* JSON.parse(text): [ok |-> FALSE] stands for the SyntaxError it throws.
JSONParse(text) == WholeText(text, ParseValue(text, 1))

\* The escape JSON.stringify writes for a character of a string.
Escape == "\"" :> <<"\\", "\"">> @@ "\\" :> <<"\\", "\\">> @@ "\n" :> <<"\\", "n">>
          @@ "\t" :> <<"\\", "t">> @@ "\r" :> <<"\\", "r">>

RECURSIVE EscapeRange(_, _, _)
\* The escaped text of s[from..to]; the range is halved, which keeps the
\* nesting of the evaluation logarithmic.
EscapeRange(s, from, to) ==
    IF from > to THEN << >>
    ELSE IF from = to THEN (IF s[from] \in DOMAIN Escape THEN Escape[s[from]] ELSE << s[from] >>)
    ELSE LET mid == (from + to) \div 2
         IN EscapeRange(s, from, mid) \o EscapeRange(s, mid + 1, to)

\* The string literal JSON.stringify writes for s.
Quote(s) == << "\"" >> \o EscapeRange(s, 1, Len(s)) \o << "\"" >>

Spaces(n) == [i \in 1..n |-> " "]

RECURSIVE Stringify(_, _, _)
\* JSON.stringify(val, null, indent) at nesting depth; indent 0 is JSON.stringify(val).
Stringify(val, indent, depth) ==
    LET nl(d) == IF indent = 0 THEN << >> ELSE << "\n" >> \o Spaces(indent * d)
        colon == IF indent = 0 THEN << ":" >> ELSE << ":", " " >>
        items[i \in 0..Len(val.v)] ==
            IF i = 0 THEN << >>
            ELSE items[i - 1] \o (IF i > 1 THEN << "," >> ELSE << >>) \o nl(depth + 1) \o
                 (IF val.t = "object"
                  THEN Quote(val.v[i][1]) \o colon \o Stringify(val.v[i][2], indent, depth + 1)
                  ELSE Stringify(val.v[i], indent, depth + 1))
    IN CASE val.t = "string"  -> Quote(val.v)
         [] val.t = "number"  -> IntToStr(val.v)
         [] val.t = "boolean" -> IF val.v THEN <<"t", "r", "u", "e">>
                                 ELSE <<"f", "a", "l", "s", "e">>
         [] val.t = "null"    -> <<"n", "u", "l", "l">>
         [] val.t = "array"   -> IF Len(val.v) = 0 THEN <<"[", "]">>
                                 ELSE << "[" >> \o items[Len(val.v)] \o nl(depth) \o << "]" >>
         [] val.t = "object"  -> IF Len(val.v) = 0 THEN <<"{", "}">>
                                 ELSE << "{" >> \o items[Len(val.v)] \o nl(depth) \o << "}" >>


(***************************************************************************)
(* src/unnamed/part_002 (types/agent): the component whitelist.            *)
(***************************************************************************)
ALLOWED_COMPONENTS ==
    <<Txt_Button, Txt_Card, Txt_Input, Txt_Table, Txt_Modal, Txt_Sidebar, Txt_Navbar,
      Txt_Chart>>
Range(f) == {f[i] : i \in DOMAIN f}

(***************************************************************************)
(* src/lib/llm.ts (lib/validation): the plan schema.                       *)
(***************************************************************************)
IsString(v)  == v.t = "string"
IsNonEmpty(v) == v.t = "string" /\ Len(v.v) >= 1
IsOneOf(v, texts) == v.t = "string" /\ v.v \in texts
IsStringArray(v) == v.t = "array" /\ \A i \in 1..Len(v.v) : v.v[i].t = "string"
\* An optional key: absent, or of the given shape.
Absent(o, key) == ~HasKey(o, key)
\* z.object(...).strict(): an object with no key outside the shape.
StrictObject(v, keys) == v.t = "object" /\ KeysOf(v) \subseteq keys

buttonPropsSchema(p) ==
    /\ StrictObject(p, {Txt_label, Txt_variant})
    /\ IsNonEmpty(Get(p, Txt_label))
    /\ Absent(p, Txt_variant) \/ IsOneOf(Get(p, Txt_variant), {Txt_primary, Txt_secondary})

cardPropsSchema(p) ==
    /\ StrictObject(p, {Txt_title})
    /\ IsNonEmpty(Get(p, Txt_title))

inputPropsSchema(p) ==
    /\ StrictObject(p, {Txt_label, Txt_placeholder, Txt_value})
    /\ IsNonEmpty(Get(p, Txt_label))
    /\ Absent(p, Txt_placeholder) \/ IsString(Get(p, Txt_placeholder))
    /\ Absent(p, Txt_value) \/ IsString(Get(p, Txt_value))

tablePropsSchema(p) ==
    /\ StrictObject(p, {Txt_columns, Txt_rows})
    /\ IsStringArray(Get(p, Txt_columns))
    /\ LET rows == Get(p, Txt_rows)
       IN rows.t = "array" /\ \A i \in 1..Len(rows.v) : IsStringArray(rows.v[i])

modalPropsSchema(p) ==
    /\ StrictObject(p, {Txt_title, Txt_open})
    /\ IsNonEmpty(Get(p, Txt_title))
    /\ Get(p, Txt_open).t = "boolean"

sidebarPropsSchema(p) ==
    /\ StrictObject(p, {Txt_title, Txt_items})
    /\ IsNonEmpty(Get(p, Txt_title))
    /\ IsStringArray(Get(p, Txt_items))

navbarPropsSchema(p) ==
    /\ StrictObject(p, {Txt_title, Txt_links})
    /\ IsNonEmpty(Get(p, Txt_title))
    /\ IsStringArray(Get(p, Txt_links))

chartPropsSchema(p) ==
    /\ StrictObject(p, {Txt_title, Txt_data})
    /\ IsNonEmpty(Get(p, Txt_title))
    /\ LET data == Get(p, Txt_data)
       IN /\ data.t = "array"
          /\ \A i \in 1..Len(data.v) :
                /\ StrictObject(data.v[i], {Txt_label, Txt_value})
                /\ IsString(Get(data.v[i], Txt_label))
                /\ Get(data.v[i], Txt_value).t = "number"

\* componentPropsValidators[component].safeParse(props).success
componentPropsValidators(component, p) ==
    CASE component = Txt_Button  -> buttonPropsSchema(p)
      [] component = Txt_Card    -> cardPropsSchema(p)
      [] component = Txt_Input   -> inputPropsSchema(p)
      [] component = Txt_Table   -> tablePropsSchema(p)
      [] component = Txt_Modal   -> modalPropsSchema(p)
      [] component = Txt_Sidebar -> sidebarPropsSchema(p)
      [] component = Txt_Navbar  -> navbarPropsSchema(p)
      [] component = Txt_Chart   -> chartPropsSchema(p)

childCapableComponents == {Txt_Card, Txt_Modal}

\* node.children ?? []
ChildrenOf(node) ==
    IF Get(node, Txt_children).t = "array" THEN Get(node, Txt_children).v ELSE << >>

RECURSIVE uiNodeSchema(_)
\* uiNodeSchema.safeParse(n).success
uiNodeSchema(n) ==
    /\ n.t = "object"
    /\ IsNonEmpty(Get(n, Txt_id))
    /\ IsOneOf(Get(n, Txt_component), Range(ALLOWED_COMPONENTS))
    /\ Get(n, Txt_props).t = "object"
    /\ \/ Absent(n, Txt_children)
       \/ /\ Get(n, Txt_children).t = "array"
          /\ \A i \in 1..Len(Get(n, Txt_children).v) : uiNodeSchema(Get(n, Txt_children).v[i])

\* uiPlanSchema.safeParse(payload).success
uiPlanSchema(payload) ==
    /\ payload.t = "object"
    /\ IsOneOf(Get(payload, Txt_mode), {Txt_stack, Txt_grid, Txt_split})
    /\ Get(payload, Txt_root).t = "array"
    /\ Len(Get(payload, Txt_root).v) >= 1
    /\ \A i \in 1..Len(Get(payload, Txt_root).v) : uiNodeSchema(Get(payload, Txt_root).v[i])
    /\ \/ Absent(payload, Txt_modificationInstructions)
       \/ IsString(Get(payload, Txt_modificationInstructions))

\* The pairs of o for the keys of a z.object shape, in the order of the shape:
\* z.object strips every other key.
Shaped(o, shapeKeys, conv(_, _)) ==
    LET present == SelectSeq(shapeKeys, LAMBDA key : HasKey(o, key))
    IN JObj([i \in 1..Len(present) |-> <<present[i], conv(present[i], Get(o, present[i]))>>])

RECURSIVE uiNodeData(_)
\* The data uiNodeSchema returns for a node that parsed.
uiNodeData(n) ==
    Shaped(n, <<Txt_id, Txt_component, Txt_props, Txt_children>>,
           LAMBDA key, val :
               IF key = Txt_children
               THEN JArr([i \in 1..Len(val.v) |-> uiNodeData(val.v[i])])
               ELSE val)

\* result.data of uiPlanSchema.safeParse(payload), for a payload that parsed.
uiPlanData(payload) ==
    Shaped(payload, <<Txt_mode, Txt_root, Txt_modificationInstructions>>,
           LAMBDA key, val :
               IF key = Txt_root
               THEN JArr([i \in 1..Len(val.v) |-> uiNodeData(val.v[i])])
               ELSE val)

RECURSIVE validateNodeSchema(_, _)
\* A variant of validateNodeSchema that does not look into the children.
validateNodeSchemaShallow(node, path) ==
    LET component == Get(node, Txt_component).v
        children == ChildrenOf(node)
        propsError ==
            IF componentPropsValidators(component, Get(node, Txt_props)) THEN << >>
            ELSE << path \o Txt_invalidPropsFor \o component >>
        childError ==
            IF component \notin childCapableComponents /\ Len(children) > 0
            THEN << path \o Txt_colonSpace \o component \o Txt_doesNotAllowChildren >>
            ELSE << >>
    IN propsError \o childError

\* The errors validateNodeSchema pushes for node and, recursively, its children.
validateNodeSchema(node, path) ==
    LET component == Get(node, Txt_component).v
        children == ChildrenOf(node)
        propsError ==
            IF componentPropsValidators(component, Get(node, Txt_props)) THEN << >>
            ELSE << path \o Txt_invalidPropsFor \o component >>
        childError ==
            IF component \notin childCapableComponents /\ Len(children) > 0
            THEN << path \o Txt_colonSpace \o component \o Txt_doesNotAllowChildren >>
            ELSE << >>
        nested[i \in 0..Len(children)] ==
            IF i = 0 THEN << >>
            ELSE nested[i - 1] \o
                 validateNodeSchema(children[i],
                     path \o Txt_dotChildren \o NatToStr(i - 1) \o Txt_closeBracket)
    IN propsError \o childError \o nested[Len(children)]

\* validatePlan(payload): [valid |-> TRUE, plan |-> ...] or [valid |-> FALSE, error |-> ...]
validatePlan(payload) ==
    IF ~uiPlanSchema(payload)
    THEN [valid |-> FALSE, plan |-> Undefined, error |-> Txt_invalidPlanSchema]
    ELSE LET data == uiPlanData(payload)
             root == Get(data, Txt_root).v
             errs[i \in 0..Len(root)] ==
                 IF i = 0 THEN << >>
                 ELSE errs[i - 1] \o
                      validateNodeSchema(root[i],
                          Txt_root \o <<"[">> \o NatToStr(i - 1) \o Txt_closeBracket)
             semanticErrors == errs[Len(root)]
         IN IF Len(semanticErrors) > 0
            THEN [valid |-> FALSE, plan |-> Undefined,
                  error |-> Join(semanticErrors, Txt_semicolonSpace)]
            ELSE [valid |-> TRUE, plan |-> data, error |-> << >>]


(***************************************************************************)
(* src/unnamed/part_001 (agent/planner): the deterministic planner.        *)
(***************************************************************************)
STOPWORDS ==
    {Txt_create, Txt_build, Txt_make, Txt_design, Txt_generate, Txt_ui, Txt_page,
     Txt_screen, Txt_dashboard, Txt_app, Txt_website, Txt_for, Txt_with, Txt_and,
     Txt_the, Txt_a, Txt_an, Txt_to, Txt_of, Txt_in, Txt_on, Txt_from, Txt_that, Txt_this}

\* A 32-bit unsigned hash is kept as two 16-bit halves, hi * 65536 + lo.
\* (x * y) mod 2^16 for x, y < 2^16, without leaving 32 bits.
MulLow16(x, y) == (x * (y % 256) + ((x * (y \div 256)) % 256) * 256) % 65536

\* (x * y) div 2^16 for x, y < 2^16, without leaving 32 bits.
MulHigh16(x, y) ==
    LET a == x * (y \div 256)
        b == x * (y % 256)
    IN a \div 256 + ((a % 256) * 256 + b) \div 65536

\* a * b mod 2^32
Mul32(a, b) ==
    [lo |-> MulLow16(a.lo, b.lo),
     hi |-> (MulHigh16(a.lo, b.lo) + MulLow16(a.hi, b.lo) + MulLow16(a.lo, b.hi)) % 65536]

\* a + b mod 2^32
Add32(a, b) ==
    [lo |-> (a.lo + b.lo) % 65536,
     hi |-> (a.hi + b.hi + (a.lo + b.lo) \div 65536) % 65536]

RECURSIVE HashRange(_, _, _)
\* Running the loop of hashIntent over input[from..to] maps a hash h to
\* h * p + a (mod 2^32), with p = 31^(to - from + 1): the pair [p, a].  The
\* range is halved, which keeps the nesting of the evaluation logarithmic.
HashRange(input, from, to) ==
    IF from > to THEN [p |-> [lo |-> 1, hi |-> 0], a |-> [lo |-> 0, hi |-> 0]]
    ELSE IF from = to
    THEN [p |-> [lo |-> 31, hi |-> 0], a |-> [lo |-> CharCode[input[from]], hi |-> 0]]
    ELSE LET mid == (from + to) \div 2
             l == HashRange(input, from, mid)
             r == HashRange(input, mid + 1, to)
         IN [p |-> Mul32(l.p, r.p), a |-> Add32(Mul32(l.a, r.p), r.a)]

\* hash = (hash * 31 + input.charCodeAt(i)) >>> 0 for every i, from hash = 0
hashIntent(input) == HashRange(input, 1, Len(input)).a

\* (hash + offset) % n
HashMod(hash, offset, n) == ((hash.hi % n) * (65536 % n) + hash.lo + offset) % n

\* items[(hash + offset) % items.length]
pickByHash(items, hash, offset) == items[HashMod(hash, offset, Len(items)) + 1]

\* hash >> k: the hash as a signed 32-bit integer, shifted arithmetically.
HashSar(hash, k) ==
    LET signed == (hash.hi - (IF hash.hi >= 32768 THEN 65536 ELSE 0)) * 65536 + hash.lo
    IN signed \div (2 ^ k)

\* a % b of JavaScript: the sign of the dividend.
JsRem(a, b) == IF a >= 0 THEN a % b ELSE 0 - ((0 - a) % b)

extractKeyPhrases(intent) ==
    LET spaced == ReplaceOutside(toLowerCase(intent),
                                 LowerLetters \cup Digits \cup WhiteSpace, " ")
        words == SelectSeq(SplitRuns(spaced, WhiteSpace),
                           LAMBDA w : Len(w) > 2 /\ w \notin STOPWORDS)
    IN Take(Uniq(words), 6)

\* part.charAt(0).toUpperCase() + part.slice(1).toLowerCase()
Capitalize(part) == << Upper(part[1]) >> \o toLowerCase(Tail(part))

toTitleCase(value) ==
    LET parts == SelectSeq(SplitChar(value, " "), LAMBDA p : p # << >>)
    IN Join([i \in 1..Len(parts) |-> Capitalize(parts[i])], Txt_space)

inferTopic(intent) ==
    LET phrases == extractKeyPhrases(intent)
    IN IF Len(phrases) = 0 THEN Txt_Workspace
       ELSE toTitleCase(Join(Take(phrases, 2), Txt_space))

\* /w1|w2|...|wn/
Words(ws) == {<< Lit(ws[i]) >> : i \in 1..Len(ws)}
\* /\bw1|w2|...|wn\b/ : the first alternative alone starts at a word boundary
\* and the last alone ends at one.
BWords(ws) ==
    {(IF i = 1 THEN << WB >> ELSE << >>) \o << Lit(ws[i]) >> \o
     (IF i = Len(ws) THEN << WB >> ELSE << >>) : i \in 1..Len(ws)}

inferMode(intent) ==
    IF test(RegexI(Words(<<Txt_minimal, Txt_simple, Txt_clean, Txt_single_column, Txt_stack>>)),
            intent)
    THEN Txt_stack
    ELSE IF test(RegexI(Words(<<Txt_grid, Txt_cards_layout, Txt_two_columns>>)), intent)
    THEN Txt_grid
    ELSE Txt_split

IsAuthText(text) ==
    test(Regex(BWords(<<Txt_login, Txt_sign_in, Txt_signup, Txt_register, Txt_auth>>)), text)
IsFeedText(text) ==
    test(Regex(BWords(<<Txt_feed, Txt_social, Txt_linkedin>>)), text)

\* The set of component names inferRequestedComponents returns.
inferRequestedComponents(intent) ==
    LET text == toLowerCase(intent)
        hit(ws) == test(Regex(BWords(ws)), text)
        direct ==
            (IF hit(<<Txt_navbar, Txt_header, Txt_top_nav, Txt_navigation>>)
             THEN {Txt_Navbar} ELSE {}) \cup
            (IF hit(<<Txt_sidebar, Txt_side_nav, Txt_left_nav>>) THEN {Txt_Sidebar} ELSE {}) \cup
            (IF hit(<<Txt_card, Txt_panel, Txt_widget, Txt_section>>) THEN {Txt_Card} ELSE {}) \cup
            (IF hit(<<Txt_input, Txt_field, Txt_form, Txt_search, Txt_textbox, Txt_text_box,
                      Txt_login, Txt_signup, Txt_register>>) THEN {Txt_Input} ELSE {}) \cup
            (IF hit(<<Txt_button, Txt_cta, Txt_submit, Txt_action>>) THEN {Txt_Button} ELSE {}) \cup
            (IF hit(<<Txt_table, Txt_list, Txt_rows, Txt_columns, Txt_grid_data>>)
             THEN {Txt_Table} ELSE {}) \cup
            (IF hit(<<Txt_modal, Txt_dialog, Txt_popup>>) THEN {Txt_Modal} ELSE {}) \cup
            (IF hit(<<Txt_chart, Txt_graph, Txt_analytics, Txt_stats, Txt_trend, Txt_metrics>>)
             THEN {Txt_Chart} ELSE {})
        compound ==
            (IF hit(<<Txt_dashboard, Txt_admin, Txt_portal, Txt_console>>)
             THEN {Txt_Navbar, Txt_Sidebar, Txt_Card, Txt_Chart} ELSE {}) \cup
            (IF hit(<<Txt_login, Txt_sign_in, Txt_signup, Txt_register, Txt_auth>>)
             THEN {Txt_Card, Txt_Input, Txt_Button} ELSE {}) \cup
            (IF hit(<<Txt_feed, Txt_social, Txt_linkedin, Txt_twitter, Txt_instagram>>)
             THEN {Txt_Navbar, Txt_Sidebar, Txt_Card, Txt_Table} ELSE {})
        requested == direct \cup compound
    IN IF requested = {} THEN {Txt_Navbar, Txt_Card, Txt_Input, Txt_Button} ELSE requested

\* The node the factory of createNodeFactory returns when its counter is n.
MakeNode(component, props, children, n) ==
    JObj(<< <<Txt_id, JStr(toLowerCase(component) \o Txt_dash \o NatToStr(n))>>,
            <<Txt_component, JStr(component)>>,
            <<Txt_props, props>> >>
         \o (IF children.t = "array" THEN << <<Txt_children, children>> >> ELSE << >>))

Props2(k1, v1, k2, v2) == JObj(<< <<k1, v1>>, <<k2, v2>> >>)
Props1(k1, v1) == JObj(<< <<k1, v1>> >>)

altNavSets ==
    << << <<"O","v","e","r","v","i","e","w">>, <<"D","i","s","c","o","v","e","r">>, <<"U","p","d","a","t","e","s">>, <<"S","e","t","t","i","n","g","s">> >>,
       << <<"H","o","m","e">>, <<"I","n","s","i","g","h","t","s">>, <<"T","a","s","k","s">>, <<"T","e","a","m">> >>,
       << <<"F","e","e","d">>, <<"E","x","p","l","o","r","e">>, <<"A","l","e","r","t","s">>, <<"P","r","o","f","i","l","e">> >>,
       << <<"S","u","m","m","a","r","y">>, <<"P","i","p","e","l","i","n","e","s">>, <<"R","e","p","o","r","t","s">>, <<"P","r","e","f","e","r","e","n","c","e","s">> >> >>
altSidebarSets ==
    << << <<"D","a","s","h","b","o","a","r","d">>, <<"P","r","o","j","e","c","t","s">>, <<"T","i","m","e","l","i","n","e">>, <<"M","e","m","b","e","r","s">>, <<"S","e","t","t","i","n","g","s">> >>,
       << <<"W","o","r","k","s","p","a","c","e">>, <<"Q","u","e","u","e">>, <<"A","p","p","r","o","v","a","l","s">>, <<"A","n","a","l","y","t","i","c","s">>, <<"A","d","m","i","n">> >>,
       << <<"L","i","b","r","a","r","y">>, <<"C","o","l","l","e","c","t","i","o","n","s">>, <<"B","o","o","k","m","a","r","k","s">>, <<"N","o","t","i","f","i","c","a","t","i","o","n","s">>, <<"H","e","l","p">> >>,
       << <<"C","a","t","a","l","o","g">>, <<"O","p","e","r","a","t","i","o","n","s">>, <<"B","i","l","l","i","n","g">>, <<"U","s","e","r","s">>, <<"S","e","c","u","r","i","t","y">> >> >>
actionPrimarySet ==
    << <<"A","p","p","l","y">>,
       <<"C","r","e","a","t","e">>,
       <<"S","a","v","e">>,
       <<"S","e","a","r","c","h">>,
       <<"L","a","u","n","c","h">> >>
actionSecondarySet ==
    << <<"R","e","s","e","t">>,
       <<"C","l","e","a","r">>,
       <<"C","a","n","c","e","l">>,
       <<"B","a","c","k">>,
       <<"F","i","l","t","e","r">> >>
feedNavLinks ==
    << <<"H","o","m","e">>,
       <<"N","e","t","w","o","r","k">>,
       <<"J","o","b","s">>,
       <<"M","e","s","s","a","g","e","s">>,
       <<"A","l","e","r","t","s">> >>
shopSideItems ==
    << <<"C","a","t","a","l","o","g">>,
       <<"O","r","d","e","r","s">>,
       <<"C","u","s","t","o","m","e","r","s">>,
       <<"P","r","o","m","o","t","i","o","n","s">>,
       <<"A","n","a","l","y","t","i","c","s">> >>
feedSideItems ==
    << <<"F","e","e","d">>,
       <<"P","r","o","f","i","l","e">>,
       <<"C","o","n","n","e","c","t","i","o","n","s">>,
       <<"G","r","o","u","p","s">>,
       <<"E","v","e","n","t","s">> >>
feedTableRows ==
    << << <<"J","a","n","e"," ","D","o","e">>, <<"P","r","o","d","u","c","t"," ","D","e","s","i","g","n","e","r">>, <<"C","o","n","n","e","c","t">> >>,
       << <<"A","r","j","u","n"," ","R","a","o">>, <<"S","o","f","t","w","a","r","e"," ","E","n","g","i","n","e","e","r">>, <<"M","e","s","s","a","g","e">> >>,
       << <<"N","i","n","a"," ","K","i","m">>, <<"M","a","r","k","e","t","i","n","g"," ","L","e","a","d">>, <<"F","o","l","l","o","w">> >> >>
tableStates ==
    << <<"D","r","a","f","t">>,
       <<"A","c","t","i","v","e">>,
       <<"R","e","v","i","e","w">>,
       <<"B","l","o","c","k","e","d">>,
       <<"D","o","n","e">> >>
tableActions ==
    << <<"V","i","e","w">>,
       <<"E","d","i","t">>,
       <<"O","p","e","n">>,
       <<"I","n","s","p","e","c","t">>,
       <<"T","r","a","c","k">> >>
chartLabels ==
    << <<"M","o","n">>,
       <<"T","u","e">>,
       <<"W","e","d">>,
       <<"T","h","u">>,
       <<"F","r","i">>,
       <<"S","a","t">> >>

buildTableRowsFromIntent(phrases, hash) ==
    LET phrase(i, default) == IF Len(phrases) >= i THEN phrases[i] ELSE default
        subjectA == toTitleCase(phrase(1, Txt_Item))
        subjectB == toTitleCase(phrase(2, Txt_Status))
        subjectC == toTitleCase(phrase(3, Txt_Owner))
    IN << << subjectA \o Txt_sufA, pickByHash(tableStates, hash, 1), subjectC \o Txt_suf1 >>,
          << subjectA \o Txt_sufB, pickByHash(tableStates, hash, 2), subjectC \o Txt_suf2 >>,
          << subjectA \o Txt_sufC, pickByHash(tableStates, hash, 3),
             pickByHash(tableActions, hash, 4) >>,
          << subjectB \o Txt_sufD, pickByHash(tableStates, hash, 0),
             pickByHash(tableActions, hash, 2) >> >>

RowsValue(rows) == JArr([i \in 1..Len(rows) |-> StrList(rows[i])])

buildChartData(hash) ==
    JArr([i \in 1..Len(chartLabels) |->
            LET idx == i - 1
                value == 10 + JsRem(HashSar(hash, idx % 16), 26) + idx * 2
            IN Props2(Txt_label, JStr(chartLabels[i]), Txt_value, JNum(value))])

\* The body of buildIntentAwarePlan once mode, topic, text, phrases and
\* requested are computed.
PlanFrom(mode, topic, text, phrases, requested) ==
    LET hash == hashIntent(text)
        actionPrimary == pickByHash(actionPrimarySet, hash, 1)
        actionSecondary == pickByHash(actionSecondarySet, hash, 2)
        isAuth == IsAuthText(text)
        isFeed == IsFeedText(text)
        none == Undefined
        \* each step is [root |-> the nodes pushed so far, n |-> the factory's counter]
        s0 == [root |-> << >>, n |-> 1]
        withNavbar(s) == IF Txt_Navbar \in requested
              THEN LET navLinks == IF isFeed THEN feedNavLinks ELSE pickByHash(altNavSets, hash, 0)
                   IN [root |-> Append(s.root,
                                  MakeNode(Txt_Navbar,
                                      Props2(Txt_title, JStr(topic \o Txt_UI),
                                             Txt_links, StrList(navLinks)), none, s.n)),
                       n |-> s.n + 1]
              ELSE s
        withSidebar(s) == IF Txt_Sidebar \in requested
              THEN LET sideItems ==
                           IF test(Regex(BWords(<<Txt_ecommerce, Txt_store, Txt_shop>>)), text)
                           THEN shopSideItems
                           ELSE IF isFeed THEN feedSideItems
                           ELSE pickByHash(altSidebarSets, hash, 3)
                   IN [root |-> Append(s.root,
                                  MakeNode(Txt_Sidebar,
                                      Props2(Txt_title, JStr(topic \o Txt_Menu),
                                             Txt_items, StrList(sideItems)), none, s.n)),
                       n |-> s.n + 1]
              ELSE s
        authCard(s) ==
            MakeNode(Txt_Card, Props1(Txt_title, JStr(topic \o Txt_Authentication)),
                JArr(<< MakeNode(Txt_Input,
                            Props2(Txt_label, JStr(Txt_Email),
                                   Txt_placeholder, JStr(Txt_emailPlaceholder)), none, s.n),
                        MakeNode(Txt_Input,
                            Props2(Txt_label, JStr(Txt_Password),
                                   Txt_placeholder, JStr(Txt_EnterPassword)), none, s.n + 1),
                        MakeNode(Txt_Button,
                            Props2(Txt_label,
                                   JStr(IF test(Regex(Words(<<Txt_signup, Txt_register>>)), text)
                                        THEN Txt_CreateAccount ELSE Txt_SignIn),
                                   Txt_variant, JStr(Txt_primary)), none, s.n + 2) >>),
                s.n + 3)
        \* the Input node is created twice (the second replaces the first), so
        \* the counter advances by two
        inputLabel == IF Len(phrases) > 0 THEN Txt_SearchSpace \o toTitleCase(phrases[1])
                      ELSE Txt_Search
        inputPlaceholder ==
            IF Len(phrases) > 0 THEN Txt_FindSpace \o Join(Take(phrases, 2), Txt_space)
            ELSE Txt_FindSpace \o toLowerCase(topic) \o Txt_itemsSuffix
        withInput(s) == IF Txt_Input \in requested
              THEN [kids |-> << MakeNode(Txt_Input,
                                    Props2(Txt_label, JStr(inputLabel),
                                           Txt_placeholder, JStr(inputPlaceholder)),
                                    none, s.n + 1) >>,
                    n |-> s.n + 2]
              ELSE [kids |-> << >>, n |-> s.n]
        withButtons(c) == IF Txt_Button \in requested
              THEN [kids |-> c.kids \o
                        << MakeNode(Txt_Button,
                               Props2(Txt_label, JStr(actionPrimary),
                                      Txt_variant, JStr(Txt_primary)), none, c.n),
                           MakeNode(Txt_Button,
                               Props2(Txt_label, JStr(actionSecondary),
                                      Txt_variant, JStr(Txt_secondary)), none, c.n + 1) >>,
                    n |-> c.n + 2]
              ELSE c
        controlsCard(c) ==
            MakeNode(Txt_Card, Props1(Txt_title, JStr(topic \o Txt_Controls)),
                     IF Len(c.kids) > 0 THEN JArr(c.kids) ELSE none, c.n)
        withCards(s, c) == IF isAuth THEN [root |-> Append(s.root, authCard(s)), n |-> s.n + 4]
              ELSE IF Txt_Card \in requested
              THEN [root |-> Append(s.root, controlsCard(c)), n |-> c.n + 1]
              ELSE s
        withTable(s) == IF Txt_Table \in requested
              THEN LET tableRows == IF isFeed THEN feedTableRows
                                    ELSE buildTableRowsFromIntent(phrases, hash)
                       tableColumns ==
                           IF Len(phrases) >= 2
                           THEN << toTitleCase(phrases[1]), toTitleCase(phrases[2]), Txt_Action >>
                           ELSE << Txt_Name, Txt_Status, Txt_Action >>
                   IN [root |-> Append(s.root,
                          MakeNode(Txt_Card, Props1(Txt_title, JStr(topic \o Txt_TableSuffix)),
                              JArr(<< MakeNode(Txt_Table,
                                          Props2(Txt_columns, StrList(tableColumns),
                                                 Txt_rows, RowsValue(tableRows)),
                                          none, s.n) >>),
                              s.n + 1)),
                       n |-> s.n + 2]
              ELSE s
        withChart(s) == IF Txt_Chart \in requested
              THEN [root |-> Append(s.root,
                        MakeNode(Txt_Chart,
                            Props2(Txt_title, JStr(topic \o Txt_MetricsSuffix),
                                   Txt_data, buildChartData(hash)), none, s.n)),
                    n |-> s.n + 1]
              ELSE s
        withModal(s) == IF \/ Txt_Modal \in requested
                 \/ test(Regex(BWords(<<Txt_settings, Txt_preferences>>)), text)
              THEN [root |-> Append(s.root,
                        MakeNode(Txt_Modal,
                            Props2(Txt_title, JStr(topic \o Txt_SettingsSuffix),
                                   Txt_open, JBool(TRUE)),
                            JArr(<< MakeNode(Txt_Input,
                                        Props2(Txt_label, JStr(Txt_DisplayName),
                                               Txt_placeholder, JStr(topic)), none, s.n),
                                    MakeNode(Txt_Button,
                                        Props2(Txt_label, JStr(Txt_Save),
                                               Txt_variant, JStr(Txt_primary)),
                                        none, s.n + 1) >>),
                            s.n + 2)),
                    n |-> s.n + 3]
              ELSE s
        withFallback(s) == IF Len(s.root) = 0
              THEN [root |-> << MakeNode(Txt_Card,
                                    Props1(Txt_title, JStr(topic \o Txt_PanelSuffix)),
                                    JArr(<< MakeNode(Txt_Button,
                                                Props2(Txt_label, JStr(Txt_Continue),
                                                       Txt_variant, JStr(Txt_primary)),
                                                none, s.n) >>),
                                    s.n + 1) >>,
                    n |-> s.n + 2]
              ELSE s
        withControls(s) == withCards(s, withButtons(withInput(s)))
        s7 == withFallback(withModal(withChart(withTable(
                  withControls(withSidebar(withNavbar(s0)))))))
    IN JObj(<< <<Txt_mode, JStr(mode)>>, <<Txt_root, JArr(s7.root)>> >>)

\* A variant of buildIntentAwarePlan that gives the top-level nodes in the
\* opposite order.
RootReversed(plan) ==
    Put(plan, Txt_root,
        JArr([i \in 1..Len(Get(plan, Txt_root).v) |->
                 Get(plan, Txt_root).v[Len(Get(plan, Txt_root).v) + 1 - i]]))
buildIntentAwarePlanReversed(intent) ==
    RootReversed(PlanFrom(inferMode(intent), inferTopic(intent), toLowerCase(intent),
                          extractKeyPhrases(intent), inferRequestedComponents(intent)))

buildIntentAwarePlan(intent) ==
    PlanFrom(inferMode(intent), inferTopic(intent), toLowerCase(intent),
             extractKeyPhrases(intent), inferRequestedComponents(intent))

(***************************************************************************)
(* Incremental modification.  The value structuredClone returns is a new   *)
(* object that shares nothing with its argument; the fields alias and      *)
(* rootAlias of a merge state record whether `next` is the very object     *)
(* priorPlan, and next.root the very array priorPlan.root, so that a write *)
(* through `next` is seen in `prior` exactly when the two are one object.  *)
(***************************************************************************)
\* A variant of structuredClone that hands back the object itself.
shareReference(v) == [value |-> v, aliased |-> TRUE]

structuredClone(v) == [value |-> v, aliased |-> FALSE]

addMinimalMode(plan) ==
    LET root == Get(plan, Txt_root).v
        minimalNode(node) ==
            IF Get(node, Txt_component) = JStr(Txt_Navbar)
            THEN Spread(node, Txt_props,
                        Props2(Txt_title, JStr(Txt_MinimalUI),
                               Txt_links, StrList(<<Txt_Home, Txt_Settings>>)))
            ELSE node
    IN Spread(Spread(plan, Txt_mode, JStr(Txt_stack)),
              Txt_root, JArr([i \in 1..Len(root) |-> minimalNode(root[i])]))

\* next.root.push(node), seen through prior when the arrays are one.
PushRoot(st, node) ==
    LET push(plan) == Put(plan, Txt_root, JArr(Append(Get(plan, Txt_root).v, node)))
    IN [st EXCEPT !.next = push(@),
                  !.prior = IF st.rootAlias THEN push(@) ELSE @]

\* next.key = val, seen through prior when the objects are one.
Assign(st, key, val) ==
    [st EXCEPT !.next = Put(@, key, val),
               !.prior = IF st.alias THEN Put(@, key, val) ELSE @]

RootHas(plan, Holds(_)) ==
    \E i \in 1..Len(Get(plan, Txt_root).v) : Holds(Get(plan, Txt_root).v[i])
IsComponent(n, component) == Get(n, Txt_component) = JStr(component)
\* A variant of HasChild that never looks below a node.
HasChildNever(n, component) == FALSE

HasChild(n, component) ==
    \E i \in 1..Len(ChildrenOf(n)) : IsComponent(ChildrenOf(n)[i], component)

settingsModalPattern ==
    Regex({ << WB, Lit(Txt_settings), Plus(WhiteSpace), Lit(Txt_modal) >>,
            << Lit(Txt_settings_dialog) >>,
            << Lit(Txt_settings_popup), WB >> })
convertPattern ==
    Regex(BWords(<<Txt_convert_to, Txt_change_to, Txt_make_it_like, Txt_turn_into>>))
addPattern ==
    Regex({ << WB, Lit(Txt_add), WB >>, << WB, Lit(Txt_include), WB >>,
            << WB, Lit(Txt_insert), WB >> })

\* The body of mergeModification once clone, normalized, requested and topic
\* are computed; full is the plan buildIntentAwarePlan(intent) returns.
MergeFrom(intent, priorPlan, now, clone, normalized, requested, topic, full) ==
    LET m0 == [next |-> clone.value, prior |-> priorPlan,
               alias |-> clone.aliased, rootAlias |-> clone.aliased]
        m1 == IF test(Regex(Words(<<Txt_minimal, Txt_simple, Txt_clean>>)), normalized)
              THEN [m0 EXCEPT !.next = addMinimalMode(@), !.alias = FALSE, !.rootAlias = FALSE]
              ELSE m0
        stamp == NatToStr(now)
        settingsModal ==
            JObj(<< <<Txt_id, JStr(Txt_modalDash \o stamp)>>,
                    <<Txt_component, JStr(Txt_Modal)>>,
                    <<Txt_props, Props2(Txt_title, JStr(Txt_Settings), Txt_open, JBool(TRUE))>>,
                    <<Txt_children, JArr(<<
                        JObj(<< <<Txt_id, JStr(Txt_inputDash \o stamp)>>,
                                <<Txt_component, JStr(Txt_Input)>>,
                                <<Txt_props, Props2(Txt_label, JStr(Txt_Theme),
                                                    Txt_placeholder, JStr(Txt_LightOrDark))>> >>),
                        JObj(<< <<Txt_id, JStr(Txt_saveDash \o stamp)>>,
                                <<Txt_component, JStr(Txt_Button)>>,
                                <<Txt_props, Props2(Txt_label, JStr(Txt_Save),
                                                    Txt_variant, JStr(Txt_primary))>> >>) >>)>> >>)
        isModal(n) == IsComponent(n, Txt_Modal)
        m2 == IF test(settingsModalPattern, normalized) /\ ~RootHas(m1.next, isModal)
              THEN PushRoot(m1, settingsModal)
              ELSE m1
        converted ==
            [m2 EXCEPT !.next = Put(full, Txt_modificationInstructions,
                                    JStr(Txt_ConvertedPrefix \o intent)),
                       !.alias = FALSE, !.rootAlias = FALSE]
        isChart(n) == IsComponent(n, Txt_Chart)
        isTable(n) == IsComponent(n, Txt_Table) \/ HasChild(n, Txt_Table)
        hasInput(n) == HasChild(n, Txt_Input)
        addChart(m) == IF Txt_Chart \in requested /\ ~RootHas(m.next, isChart)
              THEN [st |-> PushRoot(m,
                        MakeNode(Txt_Chart,
                            Props2(Txt_title, JStr(topic \o Txt_MetricsSuffix),
                                   Txt_data, buildChartData(hashIntent(intent))),
                            Undefined, 1)),
                    n |-> 2]
              ELSE [st |-> m, n |-> 1]
        addTable(a) == IF Txt_Table \in requested /\ ~RootHas(a.st.next, isTable)
              THEN [st |-> PushRoot(a.st,
                        MakeNode(Txt_Card, Props1(Txt_title, JStr(topic \o Txt_TableSuffix)),
                            JArr(<< MakeNode(Txt_Table,
                                        Props2(Txt_columns,
                                               StrList(<<Txt_Name, Txt_Status, Txt_Action>>),
                                               Txt_rows,
                                               RowsValue(buildTableRowsFromIntent(
                                                   extractKeyPhrases(intent),
                                                   hashIntent(intent)))),
                                        Undefined, a.n) >>),
                            a.n + 1)),
                    n |-> a.n + 2]
              ELSE a
        addInput(a) == IF Txt_Input \in requested /\ ~RootHas(a.st.next, hasInput)
              THEN [st |-> PushRoot(a.st,
                        MakeNode(Txt_Card, Props1(Txt_title, JStr(topic \o Txt_InputSuffix)),
                            JArr(<< MakeNode(Txt_Input,
                                        Props2(Txt_label, JStr(Txt_Search),
                                               Txt_placeholder,
                                               JStr(Txt_FindSpace \o toLowerCase(topic)
                                                    \o Txt_itemsSuffix)),
                                        Undefined, a.n),
                                    MakeNode(Txt_Button,
                                        Props2(Txt_label, JStr(Txt_Apply),
                                               Txt_variant, JStr(Txt_primary)),
                                        Undefined, a.n + 1) >>),
                            a.n + 2)),
                    n |-> a.n + 3]
              ELSE a
        m3 == IF test(addPattern, normalized) THEN addInput(addTable(addChart(m2))).st ELSE m2
        done == IF test(convertPattern, normalized) THEN converted
                ELSE Assign(m3, Txt_modificationInstructions, JStr(intent))
        result(st) == [plan |-> st.next, prior |-> st.prior]
    IN result(done)

\* mergeModification at clock reading now: the plan it returns, and the
\* prior plan object as the call leaves it.
mergeModification(intent, priorPlan, now) ==
    MergeFrom(intent, priorPlan, now, structuredClone(priorPlan), toLowerCase(intent),
              inferRequestedComponents(intent), inferTopic(intent),
              buildIntentAwarePlan(intent))

suspiciousPatterns ==
    << RegexI({<< Lit(Txt_ignore), Plus(WhiteSpace), Lit(Txt_all), Plus(WhiteSpace),
                  Lit(Txt_instructions) >>}),
       RegexI({<< Lit(Txt_system), Plus(WhiteSpace), Lit(Txt_prompt) >>}),
       RegexI({<< Lit(Txt_developer), Plus(WhiteSpace), Lit(Txt_message) >>}),
       RegexI({<< Lit(Txt_execute), Plus(WhiteSpace), Lit(Txt_code) >>}),
       RegexI({<< Lit(Txt_bypass), Plus(WhiteSpace), Lit(Txt_safety) >>}) >>

\* A variant of filterPromptInjection that trims before it removes the angle
\* brackets.
filterPromptInjectionTrimFirst(input) ==
    [clean   |-> RemoveChars(trim(input), {"<", ">"}),
     flagged |-> \E i \in 1..Len(suspiciousPatterns) : test(suspiciousPatterns[i], input)]

filterPromptInjection(input) ==
    [clean   |-> trim(RemoveChars(input, {"<", ">"})),
     flagged |-> \E i \in 1..Len(suspiciousPatterns) : test(suspiciousPatterns[i], input)]

startOverPattern ==
    RegexI({<< Lit(Txt_regenerate), Plus(WhiteSpace), Lit(Txt_from), Plus(WhiteSpace),
               Lit(Txt_scratch) >>})

\* A string is truthy unless it is empty; null and undefined are falsy.
Truthy(v) ==
    CASE v.t = "string"  -> Len(v.v) > 0
      [] v.t = "number"  -> v.v # 0
      [] v.t = "boolean" -> v.v
      [] v.t \in {"null", "undefined"} -> FALSE
      [] OTHER -> TRUE

\* A variant of runPlanner that takes whatever JSON the oracle sends as the plan.
runPlannerTrusting(input, llmRaw, now) ==
    LET filtered == filterPromptInjection(input.intent)
        shouldFullRegenerate ==
            input.regenerateFromScratch \/ test(startOverPattern, filtered.clean)
        warnings == IF filtered.flagged THEN << Txt_sanitized >> ELSE << >>
        parsed == IF Truthy(llmRaw) THEN JSONParse(llmRaw.v) ELSE Fail
        fromMerge(merged) == [plan |-> merged.plan, warnings |-> warnings, path |-> "merge",
                              prior |-> merged.prior]
    IN IF Truthy(llmRaw) /\ parsed.ok
       THEN [plan |-> parsed.v, warnings |-> warnings, path |-> "llm",
             prior |-> input.priorPlan]
       ELSE IF ~Truthy(input.priorPlan) \/ shouldFullRegenerate
       THEN [plan |-> buildIntentAwarePlan(filtered.clean), warnings |-> warnings,
             path |-> "full", prior |-> input.priorPlan]
       ELSE fromMerge(mergeModification(filtered.clean, input.priorPlan, now))

\* A variant of runPlanner that stamps the plan of the full synthesis with
\* the reading of the clock.
runPlannerStamped(input, llmRaw, now) ==
    LET filtered == filterPromptInjection(input.intent)
        warnings == IF filtered.flagged THEN << Txt_sanitized >> ELSE << >>
    IN [plan |-> Put(buildIntentAwarePlan(filtered.clean), Txt_modificationInstructions,
                     JStr(NatToStr(now))),
        warnings |-> warnings, path |-> "full", prior |-> input.priorPlan]

\* A variant of runPlanner that modifies with the intent as it came, not
\* with the cleaned text.
runPlannerUncleaned(input, llmRaw, now) ==
    LET filtered == filterPromptInjection(input.intent)
        shouldFullRegenerate ==
            input.regenerateFromScratch \/ test(startOverPattern, filtered.clean)
        warnings == IF filtered.flagged THEN << Txt_sanitized >> ELSE << >>
        fromMerge(merged) == [plan |-> merged.plan, warnings |-> warnings, path |-> "merge",
                              prior |-> merged.prior]
    IN IF ~Truthy(input.priorPlan) \/ shouldFullRegenerate
       THEN [plan |-> buildIntentAwarePlan(filtered.clean), warnings |-> warnings,
             path |-> "full", prior |-> input.priorPlan]
       ELSE fromMerge(mergeModification(input.intent, input.priorPlan, now))

\* runPlanner after callLLM has resolved with llmRaw, at clock reading now.
\* path is the branch the planner's log names; prior is input.priorPlan as
\* the call leaves it.
runPlanner(input, llmRaw, now) ==
    LET filtered == filterPromptInjection(input.intent)
        shouldFullRegenerate ==
            input.regenerateFromScratch \/ test(startOverPattern, filtered.clean)
        warnings == IF filtered.flagged THEN << Txt_sanitized >> ELSE << >>
        parsed == IF Truthy(llmRaw) THEN JSONParse(llmRaw.v) ELSE Fail
        validation == IF parsed.ok THEN validatePlan(parsed.v)
                      ELSE [valid |-> FALSE, plan |-> Undefined, error |-> << >>]
        fromMerge(merged) == [plan |-> merged.plan, warnings |-> warnings, path |-> "merge",
                              prior |-> merged.prior]
    IN IF Truthy(llmRaw) /\ parsed.ok /\ validation.valid
       THEN [plan |-> validation.plan, warnings |-> warnings, path |-> "llm",
             prior |-> input.priorPlan]
       ELSE IF ~Truthy(input.priorPlan) \/ shouldFullRegenerate
       THEN [plan |-> buildIntentAwarePlan(filtered.clean), warnings |-> warnings,
             path |-> "full", prior |-> input.priorPlan]
       ELSE fromMerge(mergeModification(filtered.clean, input.priorPlan, now))

(***************************************************************************)
(* src/lib/llm.ts: the checks on generated code.                           *)
(***************************************************************************)
Quotes == {"\"", "'"}

badImport ==
    Regex({<< Lit(Txt_from), Plus(WhiteSpace), One(Quotes), NotAhead(Txt_uiPath),
              PlusNot(Quotes), One(Quotes) >>})

\* A variant of validateGeneratedCode that looks at the imports only.
validateImportsOnly(code) ==
    IF ~includes(code, Txt_uiImport)
    THEN [valid |-> FALSE, error |-> Txt_mustImport]
    ELSE IF test(badImport, code)
    THEN [valid |-> FALSE, error |-> Txt_nonWhitelisted]
    ELSE [valid |-> TRUE, error |-> << >>]

\* validateGeneratedCode(code): error is empty when valid.
validateGeneratedCode(code) ==
    IF ~includes(code, Txt_uiImport)
    THEN [valid |-> FALSE, error |-> Txt_mustImport]
    ELSE IF test(badImport, code)
    THEN [valid |-> FALSE, error |-> Txt_nonWhitelisted]
    ELSE IF includes(code, Txt_styleOpen)
    THEN [valid |-> FALSE, error |-> Txt_inlineForbidden]
    ELSE IF includes(code, Txt_dangerous)
    THEN [valid |-> FALSE, error |-> Txt_dangerousForbidden]
    ELSE [valid |-> TRUE, error |-> << >>]

(***************************************************************************)
(* src/agent/generator.ts                                                  *)
(***************************************************************************)
RECURSIVE renderNode(_, _)
renderNode(node, depth) ==
    LET indent == Spaces(depth)
        kids == ChildrenOf(node)
        children == Join([i \in 1..Len(kids) |-> renderNode(kids[i], depth + 2)], Txt_nl)
        safeProps == Stringify(Get(node, Txt_props), 0, 0)
        component == Get(node, Txt_component).v
    IN IF Len(children) > 0
       THEN indent \o Txt_lt \o component \o Txt_spreadOpen \o safeProps \o Txt_spreadCloseOpen
            \o Txt_nl \o children \o Txt_nl \o indent \o Txt_ltSlash \o component \o Txt_gt
       ELSE indent \o Txt_lt \o component \o Txt_spreadOpen \o safeProps \o Txt_spreadCloseSelf

\* String.prototype.trimEnd.
trimEnd(s) ==
    LET inked == {i \in 1..Len(s) : s[i] \notin WhiteSpace}
    IN IF inked = {} THEN << >>
       ELSE SubSeq(s, 1, CHOOSE i \in inked : \A j \in inked : j <= i)

layoutClassMap(mode) ==
    CASE mode = Txt_stack -> Txt_classStack
      [] mode = Txt_grid  -> Txt_classGrid
      [] mode = Txt_split -> Txt_classSplit

composeLayout(nodes, mode) ==
    LET itemMarkup == Join([i \in 1..Len(nodes) |-> renderNode(nodes[i], 6)], Txt_nl)
    IN trimEnd(Txt_sectionOpen \o layoutClassMap(mode) \o Txt_sectionMid \o itemMarkup
               \o Txt_sectionClose)

RECURSIVE collectComponents(_)
collectComponents(node) ==
    LET kids == ChildrenOf(node)
        nested[i \in 0..Len(kids)] ==
            IF i = 0 THEN << >> ELSE nested[i - 1] \o collectComponents(kids[i])
    IN << Get(node, Txt_component).v >> \o nested[Len(kids)]

\* plan.root.flatMap(collectComponents)
FlatComponents(plan) ==
    LET root == Get(plan, Txt_root).v
        flat[i \in 0..Len(root)] ==
            IF i = 0 THEN << >> ELSE flat[i - 1] \o collectComponents(root[i])
    IN flat[Len(root)]

RECURSIVE TickRange(_, _, _)
\* s[from..to] with every backtick preceded by a backslash.
TickRange(s, from, to) ==
    IF from > to THEN << >>
    ELSE IF from = to THEN (IF s[from] = BT THEN << "\\", BT >> ELSE << s[from] >>)
    ELSE LET mid == (from + to) \div 2
         IN TickRange(s, from, mid) \o TickRange(s, mid + 1, to)

importOrder ==
    << Txt_Card, Txt_Button, Txt_Input, Txt_Table, Txt_Modal, Txt_Sidebar, Txt_Navbar,
       Txt_Chart >>

\* A variant of runGenerator that returns the code without the checks on it.
runGeneratorUnchecked(plan) ==
    LET validation == validatePlan(plan)
        usedComponents == Uniq(FlatComponents(plan))
        imports == Txt_importOpen \o Join(Uniq(usedComponents \o importOrder), Txt_commaSpace)
                   \o Txt_importClose
        pretty == Stringify(plan, 2, 0)
        code == imports \o Txt_planOpen \o TickRange(pretty, 1, Len(pretty)) \o Txt_planClose
                \o composeLayout(Get(plan, Txt_root).v, Get(plan, Txt_mode).v) \o Txt_codeClose
    IN IF ~validation.valid
       THEN [ok |-> FALSE, code |-> << >>, usedComponents |-> << >>,
             error |-> Txt_invalidPlanPrefix \o validation.error]
       ELSE [ok |-> TRUE, code |-> code, usedComponents |-> usedComponents, error |-> << >>]

\* runGenerator(input): [ok |-> FALSE, error] stands for the Error it throws.
runGenerator(plan) ==
    LET validation == validatePlan(plan)
        usedComponents == Uniq(FlatComponents(plan))
        unauthorized == SelectSeq(usedComponents, LAMBDA c : c \notin Range(ALLOWED_COMPONENTS))
        imports == Txt_importOpen \o Join(Uniq(usedComponents \o importOrder), Txt_commaSpace)
                   \o Txt_importClose
        pretty == Stringify(plan, 2, 0)
        serializedPlan == TickRange(pretty, 1, Len(pretty))
        code == imports \o Txt_planOpen \o serializedPlan \o Txt_planClose
                \o composeLayout(Get(plan, Txt_root).v, Get(plan, Txt_mode).v) \o Txt_codeClose
        codeValidation == validateGeneratedCode(code)
        thrown(msg) == [ok |-> FALSE, code |-> << >>, usedComponents |-> << >>, error |-> msg]
    IN IF ~validation.valid THEN thrown(Txt_invalidPlanPrefix \o validation.error)
       ELSE IF Len(unauthorized) > 0
       THEN thrown(Txt_whitelistPrefix \o Join(unauthorized, Txt_commaSpace))
       ELSE IF ~codeValidation.valid THEN thrown(Txt_safetyPrefix \o codeValidation.error)
       ELSE [ok |-> TRUE, code |-> code, usedComponents |-> usedComponents, error |-> << >>]

(***************************************************************************)
(* src/agent/explainer.ts: runExplainer after callLLM has resolved with    *)
(* llm.                                                                    *)
(***************************************************************************)
runExplainer(input, llm) ==
    LET root == Get(input.plan, Txt_root).v
        componentSet ==
            Join(Uniq([i \in 1..Len(root) |-> Get(root[i], Txt_component).v]), Txt_commaSpace)
        fallback ==
            Join(<< Txt_layoutMode \o Get(input.plan, Txt_mode).v \o Txt_layoutTail,
                    Txt_selection \o componentSet \o Txt_selectionTail,
                    IF input.isModification THEN Txt_incremental ELSE Txt_baseline >>,
                 Txt_nl)
    IN IF Truthy(llm) THEN [explanation |-> llm.v, path |-> "llm"]
       ELSE [explanation |-> fallback, path |-> "fallback"]

(***************************************************************************)
(* src/lib/llm.ts: analyzeGeneratedCode.                                   *)
(***************************************************************************)
AlphaNum == LowerLetters \cup UpperLetters \cup Digits

collectPlanComponents(plan) == Uniq(FlatComponents(plan))

\* The capture of /<([A-Z][A-Za-z0-9]*)\b/ at a "<" at position i, << >> if
\* the expression does not match there.
TagAt(code, i) ==
    LET stop == CHOOSE j \in (i + 1)..(Len(code) + 1) :
                    /\ \A m \in (i + 1)..(j - 1) : code[m] \in AlphaNum
                    /\ j = Len(code) + 1 \/ code[j] \notin AlphaNum
    IN IF /\ code[i] = "<"
          /\ i < Len(code) /\ code[i + 1] \in UpperLetters
          /\ ~(stop <= Len(code) /\ code[stop] = "_")
       THEN SubSeq(code, i + 1, stop - 1)
       ELSE << >>

Finding(level, code, message) == [level |-> level, code |-> code, message |-> message]

\* A variant of Floored that lets the score fall below zero.
Unfloored(score) == score

\* Math.max(0, score)
Floored(score) == IF score < 0 THEN 0 ELSE score

analyzeGeneratedCode(code, plan) ==
    LET lineCount == Cardinality({i \in 1..Len(code) : code[i] = "\n"}) + 1
        jsxCount ==
            Cardinality({i \in 1..(Len(code) - 1) :
                code[i] = "<" /\ code[i + 1] \in LowerLetters \cup UpperLetters})
        importCount ==
            Cardinality({i \in 1..Len(code) :
                /\ i = 1 \/ code[i - 1] = "\n"
                /\ MatchAt(code, i, Txt_import)
                /\ i + Len(Txt_import) <= Len(code)
                /\ code[i + Len(Txt_import)] \in WhiteSpace})
        opens == Sorted({i \in 1..Len(code) : TagAt(code, i) # << >>})
        usedTags == Uniq([k \in 1..Len(opens) |-> TagAt(code, opens[k])])
        illegalTags ==
            SelectSeq(usedTags,
                LAMBDA tag : tag \notin Range(ALLOWED_COMPONENTS) /\ tag # Txt_GeneratedUI)
        missing ==
            SelectSeq(collectPlanComponents(plan), LAMBDA c : c \notin Range(usedTags))
        f1 == IF includes(code, Txt_dangerous)
              THEN << Finding(Txt_level_error, Txt_dangerous_html, Txt_msgDangerous) >>
              ELSE << >>
        f2 == IF includes(code, Txt_styleOpen)
              THEN << Finding(Txt_level_error, Txt_inline_style, Txt_msgInline) >>
              ELSE << >>
        f3 == IF includes(code, Txt_classNameDyn)
              THEN << Finding(Txt_level_warning, Txt_dynamic_class, Txt_msgDynamic) >>
              ELSE << >>
        f4 == IF Len(illegalTags) > 0
              THEN << Finding(Txt_level_error, Txt_illegal_component,
                              Txt_msgIllegal \o Join(illegalTags, Txt_commaSpace)) >>
              ELSE << >>
        f5 == IF Len(missing) > 0
              THEN << Finding(Txt_level_warning, Txt_missing_component,
                              Txt_msgMissing \o Join(missing, Txt_commaSpace)) >>
              ELSE << >>
        found == f1 \o f2 \o f3 \o f4 \o f5
        score == 100 - (IF Len(f1) > 0 THEN 50 ELSE 0) - (IF Len(f2) > 0 THEN 30 ELSE 0)
                     - (IF Len(f3) > 0 THEN 10 ELSE 0) - (IF Len(f4) > 0 THEN 40 ELSE 0)
                     - (IF Len(f5) > 0 THEN 15 ELSE 0)
    IN [score    |-> Floored(score),
        findings |-> IF Len(found) = 0
                     THEN << Finding(Txt_level_info, Txt_cleanCode, Txt_msgClean) >>
                     ELSE found,
        metrics  |-> [lineCount |-> lineCount, jsxCount |-> jsxCount,
                      importCount |-> importCount]]

(***************************************************************************)
(* src/lib/llm.ts: callLLM.  An outcome is what the environment does with  *)
(* the request to the oracle; threw stands for the rejection of the        *)
(* promise that callLLM returns.                                           *)
(***************************************************************************)
Outcome(kind, text) == [kind |-> kind, text |-> text]

callLLM(apiKey, outcome) ==
    LET returned(v) == [threw |-> FALSE, value |-> v, message |-> << >>]
        rejected(m) == [threw |-> TRUE, value |-> JNull, message |-> m]
    IN IF ~apiKey THEN returned(JNull)
       ELSE CASE outcome.kind = "network_fail"    -> rejected(Txt_fetchFailed)
              [] outcome.kind = "http_error"      -> returned(JNull)
              [] outcome.kind = "body_unreadable" -> rejected(Txt_unexpectedEnd)
              [] outcome.kind = "no_content"      -> returned(JNull)
              [] outcome.kind = "content"         -> returned(JStr(outcome.text))

(***************************************************************************)
(* src/lib/logger.ts: VersionStore.  The store is the sequence `versions`  *)
(* in insertion order.  The clock counts milliseconds from an epoch;       *)
(* toISOString writes it in the fixed-width form of Date.toISOString.      *)
(***************************************************************************)
Pad(n, width) ==
    LET digits == NatToStr(n)
    IN [i \in 1..(width - Len(digits)) |-> "0"] \o digits

toISOString(ms) ==
    Txt_isoPrefix \o Pad((ms \div 1000) % 60, 2) \o Txt_dot \o Pad(ms % 1000, 3) \o Txt_isoSuffix

\* a < b on strings: by the code units of the first position that differs.
StrLess(a, b) ==
    \E i \in 1..Len(b) :
        /\ \A j \in 1..(i - 1) : j <= Len(a) /\ a[j] = b[j]
        /\ \/ i = Len(a) + 1
           \/ i <= Len(a) /\ CharCode[a[i]] < CharCode[b[i]]

\* The comparator of list().
\* A variant of the comparator that puts the earlier snapshot first.
compareFnAscending(a, b) == IF StrLess(a.createdAt, b.createdAt) THEN 0 - 1 ELSE 1

compareFn(a, b) == IF StrLess(a.createdAt, b.createdAt) THEN 1 ELSE 0 - 1

\* arr[from..to] reversed in place (1-based, inclusive).
ReverseRange(arr, from, to) ==
    [i \in 1..Len(arr) |-> IF i >= from /\ i <= to THEN arr[from + to - i] ELSE arr[i]]

RECURSIVE RunLength(_, _, _)
\* The length of the run that starts arr: k entries are in it so far.
RunLength(arr, descending, k) ==
    IF k >= Len(arr) THEN k
    ELSE LET order == compareFn(arr[k + 1], arr[k])
         IN IF (descending /\ order >= 0) \/ (~descending /\ order < 0) THEN k
            ELSE RunLength(arr, descending, k + 1)

RECURSIVE InsertAt(_, _, _, _)
\* The position the binary search gives pivot in arr[left..right-1].
InsertAt(arr, pivot, left, right) ==
    IF left >= right THEN left
    ELSE LET mid == left + ((right - left) \div 2)
         IN IF compareFn(pivot, arr[mid]) < 0 THEN InsertAt(arr, pivot, left, mid)
            ELSE InsertAt(arr, pivot, mid + 1, right)

RECURSIVE BinaryInsertionSort(_, _)
\* arr[1..start-1] is sorted; inserts arr[start..] one by one.
BinaryInsertionSort(arr, start) ==
    IF start > Len(arr) THEN arr
    ELSE LET pivot == arr[start]
             at == InsertAt(arr, pivot, 1, start)
             moved == [i \in 1..Len(arr) |->
                          IF i < at \/ i > start THEN arr[i]
                          ELSE IF i = at THEN pivot
                          ELSE arr[i - 1]]
         IN BinaryInsertionSort(moved, start + 1)

\* Array.prototype.sort with compareFn as the runtime of the server sorts a
\* short array: the leading run is found and reversed if it descends, the
\* rest is inserted by binary search.
ArraySort(arr) ==
    IF Len(arr) < 2 THEN arr
    ELSE LET descending == compareFn(arr[2], arr[1]) < 0
             run == RunLength(arr, descending, 2)
             base == IF descending THEN ReverseRange(arr, 1, run) ELSE arr
         IN BinaryInsertionSort(base, run + 1)

list(store) == ArraySort(store)

\* The position of a snapshot in the store; 0 stands for null.
latest(store) == Len(store)

\* A variant of get that falls back to the latest snapshot.
getOrLatest(store, id) ==
    IF \E i \in 1..Len(store) : store[i].id = id
    THEN CHOOSE i \in 1..Len(store) :
             store[i].id = id /\ \A j \in 1..(i - 1) : store[j].id # id
    ELSE Len(store)

get(store, id) ==
    IF \E i \in 1..Len(store) : store[i].id = id
    THEN CHOOSE i \in 1..Len(store) :
             store[i].id = id /\ \A j \in 1..(i - 1) : store[j].id # id
    ELSE 0

rollback(store, id) == get(store, id)

\* The snapshot add builds at clock reading ms with the suffix random.
NewVersion(snapshot, ms, random) ==
    [intent        |-> snapshot.intent,
     action        |-> snapshot.action,
     baseVersionId |-> snapshot.baseVersionId,
     plan          |-> snapshot.plan,
     code          |-> snapshot.code,
     explanation   |-> snapshot.explanation,
     analysis      |-> snapshot.analysis,
     id            |-> Txt_idPrefix \o NatToStr(ms) \o Txt_underscore \o random,
     createdAt     |-> toISOString(ms)]

\* this.versions.push(version)
\* A variant of add that writes over the latest snapshot.
addOverLatest(store, snapshot, ms, random) ==
    IF store = << >> THEN << NewVersion(snapshot, ms, random) >>
    ELSE [store EXCEPT ![Len(store)] = NewVersion(snapshot, ms, random)]

\* A variant of add that puts the new snapshot in front of the others.
addInFront(store, snapshot, ms, random) == << NewVersion(snapshot, ms, random) >> \o store

add(store, snapshot, ms, random) == Append(store, NewVersion(snapshot, ms, random))

(***************************************************************************)
(* The server.  Request r of Requests is handled by one invocation of a    *)
(* route handler; handlers run on one thread and interleave only where    *)
(* they await the oracle.                                                  *)
(***************************************************************************)
VARIABLES
    versions,   \* versionStore.versions, in insertion order
    now,        \* the clock, in milliseconds
    apiKey,     \* whether process.env.OPENAI_API_KEY is set
    procs,      \* per request in flight: the handler's position, its locals,
                \* the lines it has written to its stream, the stages it ran
    out,        \* the response a handler has just returned, until it is sent
    served,     \* the number of requests that reached the pipeline
    appended,   \* the number of requests answered with a version
    call        \* a function of the library, its arguments and its value

vars == << versions, now, apiKey, procs, out, served, appended, call >>

NumProcs == 2
MaxRequests == 2
MaxClock == 1

Requests == 1..NumProcs

\* What Math.random().toString(36).slice(2, 8) can give.
RandomSuffixes == { <<"k", "3">>, <<"q">> }
\* One of them, for the requests that run together.
OneSuffix == { <<"q">> }

IntentCard == <<" ", "c", "a", "r", "d", " ">>
IntentBlank == <<" ", " ">>

Intents == { Undefined, JStr(IntentBlank), JStr(IntentCard) }
Actions == { Undefined, JStr(Txt_modify), JStr(Txt_regenerate) }
UnknownId == <<"v", "_", "0", "_", "z">>
IdsOf(store) == { store[i].id : i \in 1..Len(store) }
BaseInputs(store) == { Undefined } \cup { JStr(id) : id \in IdsOf(store) }
IdInputs(store) == { Undefined, JStr(UnknownId) } \cup { JStr(id) : id \in IdsOf(store) }

\* What the oracle can answer the planner's prompt with: a text that is not
\* JSON, a plan, and a plan whose code the generator refuses.
PlanOf(label) ==
    JObj(<< <<Txt_mode, JStr(Txt_stack)>>,
            <<Txt_root, JArr(<< JObj(<< <<Txt_id, JStr(<<"b", "1">>)>>,
                                        <<Txt_component, JStr(Txt_Button)>>,
                                        <<Txt_props, Props1(Txt_label, JStr(label))>> >>) >>)>> >>)
OraclePlan == PlanOf(<<"G", "o">>)
OracleInlinePlan == PlanOf(Txt_styleOpen)
PlannerReplies ==
    { <<"n", "o">>, Stringify(OraclePlan, 0, 0), Stringify(OracleInlinePlan, 0, 0) }
\* What it can answer the explainer's prompt with.
ExplainerReplies == { <<"O", "K", ".">> }

FaultKinds == {"http_error", "network_fail", "body_unreadable", "no_content"}
Faults == { Outcome(k, << >>) : k \in FaultKinds }
PlannerOutcomes == Faults \cup { Outcome("content", t) : t \in PlannerReplies }
ExplainerOutcomes == Faults \cup { Outcome("content", t) : t \in ExplainerReplies }

NoVersion == << >>
Idle == [kind |-> "none", pc |-> "idle", input |-> Undefined, intent |-> << >>, action |-> << >>, base |-> 0,
         baseVersionId |-> Undefined, source |-> 0, plan |-> Undefined, code |-> << >>,
         warnings |-> << >>, events |-> << >>, trace |-> << >>]
NoResponse == [route |-> "none", input |-> Undefined, status |-> 0, error |-> << >>,
               version |-> NoVersion, replayedFrom |-> << >>, versions |-> << >>,
               events |-> << >>, trace |-> << >>]
NoCall == [fn |-> "none"]

Init ==
    /\ versions = << >>
    /\ now = 0
    /\ apiKey \in BOOLEAN
    /\ procs = [r \in Requests |-> Idle]
    /\ out = NoResponse
    /\ served = 0
    /\ appended = 0
    /\ call = NoCall

StatusEvent(message) == [type |-> "status", text |-> message, version |-> NoVersion]
ErrorEvent(message)  == [type |-> "error", text |-> message, version |-> NoVersion]
ChunkEvent(chunk)    == [type |-> "explanation_chunk", text |-> chunk, version |-> NoVersion]
FinalEvent(version)  == [type |-> "final", text |-> << >>, version |-> << version >>]

\* NextResponse.json({ error }, { status }) of the route.
ErrorResponse(route, input, status, message, trace) ==
    [NoResponse EXCEPT !.route = route, !.input = input, !.status = status,
                       !.error = message, !.trace = trace]
\* The Response that carries the stream, when the stream is closed.
StreamResponse(input, events, trace) ==
    [NoResponse EXCEPT !.route = "stream", !.input = input, !.status = 200,
                       !.events = events, !.trace = trace]

\* The locals executePipeline and the stream's start compute from the body.
PipelineLocals(kind, body, store) ==
    LET intent == IF body.intent.t = "string" THEN trim(body.intent.v) ELSE << >>
        action == IF body.action.t = "string" THEN body.action.v ELSE Txt_generate
        baseVersion == IF Truthy(body.baseVersionId) THEN get(store, body.baseVersionId.v) ELSE 0
        workingBase == IF baseVersion # 0 THEN baseVersion ELSE latest(store)
    IN [Idle EXCEPT !.kind = kind, !.input = body.intent, !.intent = intent, !.action = action, !.base = workingBase,
                    !.baseVersionId = IF workingBase # 0 THEN JStr(store[workingBase].id)
                                      ELSE Undefined]

\* A request is handled in the first slot that holds no running handler,
\* once the response before it has been sent.
Free(r) ==
    /\ out = NoResponse
    /\ procs[r].pc = "idle"
    /\ \A q \in 1..(r - 1) : procs[q].pc # "idle"

\* A variant of executePipeline that goes to the explainer at once.
ExecutePipelineFromExplainer(r, body) ==
    LET p == PipelineLocals("agent", body, versions) IN
    /\ Free(r)
    /\ p.intent # << >>
    /\ procs' = [procs EXCEPT ![r] = [p EXCEPT !.pc = "explainer_await",
                                               !.trace = << "explainer", "oracle" >>]]
    /\ served' = served + 1
    /\ UNCHANGED << versions, now, apiKey, out, appended, call >>

\* POST /api/agent: executePipeline up to the planner's await of the oracle.
ExecutePipeline(r, body) ==
    LET p == PipelineLocals("agent", body, versions) IN
    /\ Free(r)
    /\ IF p.intent = << >>
       THEN /\ procs' = procs
            /\ out' = ErrorResponse("agent", body.intent, 500, Txt_intentRequired, << >>)
            /\ served' = served
       ELSE /\ procs' = [procs EXCEPT ![r] = [p EXCEPT !.pc = "planner_await",
                                                       !.trace = << "planner", "oracle" >>]]
            /\ out' = out
            /\ served' = served + 1
    /\ UNCHANGED << versions, now, apiKey, appended, call >>

\* POST /api/agent?stream=1: the stream's start up to the planner's await.
StreamFromPipeline(r, body) ==
    LET p == PipelineLocals("stream", body, versions) IN
    /\ Free(r)
    /\ IF p.intent = << >>
       THEN /\ procs' = procs
            /\ out' = StreamResponse(body.intent,
                                  << StatusEvent(Txt_plannerStarted),
                                     ErrorEvent(Txt_intentRequired) >>, << >>)
            /\ served' = served
       ELSE /\ procs' = [procs EXCEPT ![r] =
                           [p EXCEPT !.pc = "planner_await",
                                     !.events = << StatusEvent(Txt_plannerStarted) >>,
                                     !.trace = << "planner", "oracle" >>]]
            /\ out' = out
            /\ served' = served + 1
    /\ UNCHANGED << versions, now, apiKey, appended, call >>

\* POST /api/agent/replay up to the planner's await of the oracle.
ReplayPost(r, sourceVersionId) ==
    LET source == IF Truthy(sourceVersionId) THEN get(versions, sourceVersionId.v) ELSE 0
        snap == versions[source]
        baseVersion == IF Truthy(snap.baseVersionId) THEN get(versions, snap.baseVersionId.v)
                       ELSE 0
    IN
    /\ Free(r)
    /\ IF ~Truthy(sourceVersionId)
       THEN /\ procs' = procs
            /\ out' = ErrorResponse("replay", sourceVersionId, 400, Txt_sourceRequired, << >>)
            /\ served' = served
       ELSE IF source = 0
       THEN /\ procs' = procs
            /\ out' = ErrorResponse("replay", sourceVersionId, 404, Txt_sourceNotFound, << >>)
            /\ served' = served
       ELSE /\ procs' = [procs EXCEPT ![r] =
                           [Idle EXCEPT !.kind = "replay", !.pc = "planner_await",
                                        !.input = sourceVersionId,
                                        !.intent = snap.intent, !.action = snap.action,
                                        !.base = baseVersion,
                                        !.baseVersionId = snap.baseVersionId,
                                        !.source = source,
                                        !.trace = << "planner", "oracle" >>]]
            /\ out' = out
            /\ served' = served + 1
    /\ UNCHANGED << versions, now, apiKey, appended, call >>

\* The catch blocks: status 500 from the agent and replay routes, an error
\* line from the stream.
Caught(p, message, events, trace) ==
    IF p.kind = "stream"
    THEN StreamResponse(p.input, events \o << ErrorEvent(message) >>, trace)
    ELSE ErrorResponse(p.kind, p.input, 500, message, trace)

\* A status line, written by the stream only.
Status(p, message) == IF p.kind = "stream" THEN << StatusEvent(message) >> ELSE << >>

\* Without credentials callLLM makes no request: there is one outcome.
OutcomesFor(key, outcomes) == IF key THEN outcomes ELSE { Outcome("no_key", << >>) }

\* The handler of request r from the return of runGenerator on: planner and
\* generator are what the two stages returned, llm what the oracle gave the
\* planner.
AfterGenerator(r, outcome, llm, planner, generator) ==
    LET p == procs[r]
        passesPrior == p.action = Txt_modify /\ p.base # 0
        store == IF passesPrior THEN [versions EXCEPT ![p.base].plan = planner.prior]
                 ELSE versions
        oracle == p.trace \o (IF llm.threw THEN << outcome.kind >> ELSE << >>)
    IN
    /\ IF llm.threw
       THEN /\ procs' = [procs EXCEPT ![r] = Idle]
            /\ out' = Caught(p, llm.message, p.events, oracle \o << "planner_threw" >>)
            /\ versions' = versions
       ELSE IF ~generator.ok
       THEN /\ procs' = [procs EXCEPT ![r] = Idle]
            /\ out' = Caught(p, generator.error,
                             p.events \o Status(p, Txt_plannerCompleted),
                             oracle \o << "planner_returned", "generator",
                                          "generator_threw" >>)
            /\ versions' = store
       ELSE /\ procs' = [procs EXCEPT ![r].pc = "explainer_await",
                                      ![r].plan = planner.plan,
                                      ![r].code = generator.code,
                                      ![r].warnings = planner.warnings,
                                      ![r].events = @ \o Status(p, Txt_plannerCompleted)
                                                      \o Status(p, Txt_generatorCompleted),
                                      ![r].trace = oracle \o << "planner_returned", "generator",
                                                                "generator_returned",
                                                                "explainer", "oracle" >>]
            /\ out' = out
            /\ versions' = store

\* The handler of request r from the return of runPlanner on.
AfterPlanner(r, outcome, llm, planner) ==
    AfterGenerator(r, outcome, llm, planner, runGenerator(planner.plan))

\* A variant of PlannerResumes that asks the oracle once more when its first
\* answer was nothing.
PlannerResumesRetrying(r, outcome) ==
    LET p == procs[r]
        llm == callLLM(apiKey, outcome)
        passesPrior == p.action = Txt_modify /\ p.base # 0
        input == [intent |-> p.intent,
                  priorPlan |-> IF passesPrior THEN versions[p.base].plan ELSE Undefined,
                  regenerateFromScratch |-> p.action = Txt_regenerate]
    IN
    /\ out = NoResponse
    /\ p.pc = "planner_await"
    /\ IF ~llm.threw /\ ~Truthy(llm.value) /\ Len(p.trace) < 3
       THEN /\ procs' = [procs EXCEPT ![r].trace = @ \o << "oracle" >>]
            /\ UNCHANGED << versions, out >>
       ELSE AfterPlanner(r, outcome, llm, runPlanner(input, llm.value, now))
    /\ UNCHANGED << now, apiKey, served, appended, call >>

\* The planner's await of the oracle resolves: the rest of runPlanner, then
\* runGenerator, then runExplainer up to its await of the oracle.
PlannerResumes(r, outcome) ==
    LET p == procs[r]
        llm == callLLM(apiKey, outcome)
        passesPrior == p.action = Txt_modify /\ p.base # 0
        input == [intent |-> p.intent,
                  priorPlan |-> IF passesPrior THEN versions[p.base].plan ELSE Undefined,
                  regenerateFromScratch |-> p.action = Txt_regenerate]
    IN
    /\ out = NoResponse
    /\ p.pc = "planner_await"
    /\ AfterPlanner(r, outcome, llm, runPlanner(input, llm.value, now))
    /\ UNCHANGED << now, apiKey, served, appended, call >>

\* The snapshot the handler of request r hands to versionStore.add.
SnapshotOf(p, explanation, store) ==
    [intent        |-> p.intent,
     action        |-> p.action,
     baseVersionId |-> p.baseVersionId,
     plan          |-> p.plan,
     code          |-> p.code,
     explanation   |-> IF p.kind = "replay"
                       THEN Txt_replayOpen \o store[p.source].id \o Txt_replayClose
                            \o explanation
                       ELSE explanation,
     analysis      |-> analyzeGeneratedCode(p.code, p.plan)]

\* The explanation_chunk lines of the stream.
Chunks(explanation) ==
    LET lines == SelectSeq(SplitChar(explanation, "\n"), LAMBDA line : line # << >>)
    IN [i \in 1..Len(lines) |-> ChunkEvent(lines[i] \o Txt_nl)]

\* The handler of request r from versionStore.add on: store is the history
\* with the snapshot appended.
AfterAppend(r, outcome, llm, explainer, store) ==
    LET p == procs[r]
        version == store[Len(store)]
        oracle == p.trace \o (IF llm.threw THEN << outcome.kind >> ELSE << >>)
        stages == oracle \o << "explainer_returned", "append" >>
    IN
    /\ procs' = [procs EXCEPT ![r] = Idle]
    /\ IF llm.threw
       THEN /\ out' = Caught(p, llm.message, p.events, oracle \o << "explainer_threw" >>)
            /\ versions' = versions
            /\ appended' = appended
       ELSE /\ versions' = store
            /\ appended' = appended + 1
            /\ out' = IF p.kind = "stream"
                      THEN StreamResponse(p.input,
                                          p.events \o << StatusEvent(Txt_explainerCompleted) >>
                                            \o Chunks(explainer.explanation)
                                            \o << FinalEvent(version) >>,
                                          stages)
                      ELSE [NoResponse EXCEPT
                              !.route = p.kind, !.input = p.input, !.status = 200,
                              !.version = << version >>,
                              !.replayedFrom = IF p.kind = "replay" THEN versions[p.source].id
                                               ELSE << >>,
                              !.trace = stages]

\* The handler of request r from the return of runExplainer on.
AfterExplainer(r, outcome, llm, random, explainer) ==
    AfterAppend(r, outcome, llm, explainer,
                add(versions, SnapshotOf(procs[r], explainer.explanation, versions),
                    now, random))

\* The explainer's await of the oracle resolves: the rest of runExplainer,
\* the analysis, versionStore.add and the response.
ExplainerResumes(r, outcome, random) ==
    LET p == procs[r]
        llm == callLLM(apiKey, outcome)
    IN
    /\ out = NoResponse
    /\ p.pc = "explainer_await"
    /\ AfterExplainer(r, outcome, llm, random,
                      runExplainer([plan |-> p.plan,
                                    isModification |-> p.action = Txt_modify /\ p.base # 0],
                                   llm.value))
    /\ UNCHANGED << now, apiKey, served, call >>

\* GET /api/versions
VersionsGet ==
    /\ out = NoResponse
    /\ out' = [NoResponse EXCEPT !.route = "versions_get", !.status = 200,
                                 !.versions = list(versions)]
    /\ UNCHANGED << versions, now, apiKey, procs, served, appended, call >>

\* POST /api/versions: rollback.
VersionsPost(id) ==
    LET found == IF Truthy(id) THEN rollback(versions, id.v) ELSE 0 IN
    /\ out = NoResponse
    /\ out' = IF ~Truthy(id)
              THEN ErrorResponse("versions_post", id, 400, Txt_idRequired, << >>)
              ELSE IF found = 0
              THEN ErrorResponse("versions_post", id, 404, Txt_versionNotFound, << >>)
              ELSE [NoResponse EXCEPT !.route = "versions_post", !.input = id, !.status = 200,
                                      !.version = << versions[found] >>]
    /\ UNCHANGED << versions, now, apiKey, procs, served, appended, call >>

\* The response is sent to the client.
Send ==
    /\ out # NoResponse
    /\ out' = NoResponse
    /\ UNCHANGED << versions, now, apiKey, procs, served, appended, call >>

\* A millisecond passes.
Tick ==
    /\ out = NoResponse
    /\ now < MaxClock
    /\ now' = now + 1
    /\ UNCHANGED << versions, apiKey, procs, out, served, appended, call >>

Bodies(store) ==
    [intent : Intents, action : Actions, baseVersionId : BaseInputs(store)]

Next ==
    \/ /\ served < MaxRequests
       /\ \E r \in Requests : \E body \in Bodies(versions) : ExecutePipeline(r, body)
    \/ /\ served < MaxRequests
       /\ \E r \in Requests : \E body \in Bodies(versions) : StreamFromPipeline(r, body)
    \/ /\ served < MaxRequests
       /\ \E r \in Requests : \E id \in IdInputs(versions) : ReplayPost(r, id)
    \/ \E r \in Requests : \E outcome \in OutcomesFor(apiKey, PlannerOutcomes) :
           PlannerResumes(r, outcome)
    \/ \E r \in Requests : \E outcome \in OutcomesFor(apiKey, ExplainerOutcomes) :
           \E random \in OneSuffix : ExplainerResumes(r, outcome, random)
    \/ VersionsGet
    \/ \E id \in IdInputs(versions) : VersionsPost(id)
    \/ Send

Spec == Init /\ [][Next]_vars

(***************************************************************************)
(* The history of one client without credentials: its requests follow one *)
(* another, and a replay can have a modification with a base as its source.*)
(***************************************************************************)
MaxHistory == 3

HistoryInit == Init /\ apiKey = FALSE

HistoryNext ==
    \/ /\ served < MaxHistory
       /\ \E body \in Bodies(versions) : ExecutePipeline(1, body)
    \/ /\ served < MaxHistory
       /\ \E id \in IdInputs(versions) : ReplayPost(1, id)
    \/ \E outcome \in OutcomesFor(apiKey, PlannerOutcomes) : PlannerResumes(1, outcome)
    \/ \E outcome \in OutcomesFor(apiKey, ExplainerOutcomes) :
           \E random \in RandomSuffixes : ExplainerResumes(1, outcome, random)
    \/ VersionsGet
    \/ \E id \in IdInputs(versions) : VersionsPost(id)
    \/ Send
    \/ Tick

HistorySpec == HistoryInit /\ [][HistoryNext]_vars

(***************************************************************************)
(* runPlanner on its own: the inputs are drawn at the start, and one step  *)
(* applies the function to them.                                           *)
(***************************************************************************)
Space == << " " >>
PlannerIntents ==
    { Txt_card,
      Txt_add \o Space \o Txt_button,
      Txt_regenerate \o Space \o Txt_from \o Space \o Txt_scratch,
      Txt_system \o Space \o Txt_prompt }
\* A reply that is JSON and no plan: its component is not one of the library.
OracleUnknownPlan ==
    JObj(<< <<Txt_mode, JStr(Txt_stack)>>,
            <<Txt_root, JArr(<< JObj(<< <<Txt_id, JStr(<<"x", "1">>)>>,
                                        <<Txt_component, JStr(<<"F", "o", "o">>)>>,
                                        <<Txt_props, JObj(<< >>)>> >>) >>)>> >>)
PlannerRaws ==
    { JNull, JStr(<< >>), JStr(<<"n", "o">>), JStr(<<"{", "}">>), JStr(<<"n", "u", "l", "l">>),
      JStr(Stringify(OraclePlan, 0, 0)), JStr(Stringify(OracleUnknownPlan, 0, 0)) }
PlannerPriors == { Undefined, validatePlan(OraclePlan).plan }
PlannerCalls ==
    [fn : {"runPlanner"},
     input : [intent : PlannerIntents, priorPlan : PlannerPriors,
              regenerateFromScratch : BOOLEAN],
     llmRaw : PlannerRaws,
     applied : {FALSE},
     value : {Undefined}]

PlannerInit ==
    /\ versions = << >>
    /\ now = 0
    /\ apiKey = TRUE
    /\ procs = [r \in Requests |-> Idle]
    /\ out = NoResponse
    /\ served = 0
    /\ appended = 0
    /\ call \in PlannerCalls

\* runPlanner resumes with what callLLM resolved with, and returns.
ApplyRunPlanner ==
    /\ call.fn = "runPlanner"
    /\ ~call.applied
    /\ call' = [call EXCEPT !.applied = TRUE,
                            !.value = runPlanner(call.input, call.llmRaw, now)]
    /\ UNCHANGED << versions, now, apiKey, procs, out, served, appended >>

PlannerNext == ApplyRunPlanner

PlannerSpec == PlannerInit /\ [][PlannerNext]_vars

(***************************************************************************)
(* What the responses and the traces say.                                  *)
(***************************************************************************)
PipelineRoutes == {"agent", "stream", "replay"}

\* The version a response hands to the caller: in the body, or in the final
\* line of the stream.  Empty when it hands none.
Delivered(response) ==
    IF response.route = "stream"
    THEN LET finals == SelectSeq(response.events, LAMBDA e : e.type = "final")
         IN IF finals = << >> THEN << >> ELSE finals[1].version
    ELSE response.version

\* The response reports an error to the caller.
ReportsError(response) ==
    IF response.route = "stream"
    THEN \E i \in 1..Len(response.events) : response.events[i].type = "error"
    ELSE response.status \in {400, 404, 500} /\ response.error # << >>

\* The stages of a request that stores a snapshot.
FullTrace ==
    << "planner", "oracle", "planner_returned", "generator", "generator_returned",
       "explainer", "oracle", "explainer_returned", "append" >>

Has(t, x) == \E i \in 1..Len(t) : t[i] = x
Follows(t, x, prev) == \A i \in 1..Len(t) : t[i] = x => (i > 1 /\ t[i - 1] = prev)

\* Code that passes each of the generator's checks on code.
CodeSafe(code) ==
    /\ includes(code, Txt_uiImport)
    /\ ~test(badImport, code)
    /\ ~includes(code, Txt_styleOpen)
    /\ ~includes(code, Txt_dangerous)

\* A step in which a handler of the agent or replay route answers.
Answers == out' # out /\ out'.route \in PipelineRoutes

Blank(input) == input.t # "string" \/ trim(input.v) = << >>

(***************************************************************************)
(* C1: a snapshot is appended only by the step that ends a request whose   *)
(* planner, generator and explainer have all returned, and then the plan   *)
(* is valid, its components are of the library and the code passes the     *)
(* safety checks; a request that ends otherwise reports an error, hands    *)
(* out no version, and no step of it changes the store.                    *)
(***************************************************************************)
C1_Step ==
    IF Answers /\ Delivered(out') # << >>
    THEN LET version == Delivered(out')[1] IN
         /\ out'.trace = FullTrace
         /\ versions' = Append(versions, version)
         /\ validatePlan(version.plan).valid
         /\ \A i \in 1..Len(FlatComponents(version.plan)) :
                FlatComponents(version.plan)[i] \in Range(ALLOWED_COMPONENTS)
         /\ CodeSafe(version.code)
    ELSE /\ versions' = versions
         /\ Answers => (ReportsError(out') /\ ~Has(out'.trace, "append"))

C1_AppendOnlyAfterAllStages == [][C1_Step]_vars

\* The generator has refused the code of a request while the store held a
\* snapshot: the request ends with an error.
C1_Witness ==
    /\ out.route \in PipelineRoutes
    /\ Has(out.trace, "generator_threw")
    /\ ReportsError(out)
    /\ Len(versions) = 1

(***************************************************************************)
(* C2: in every request, streamed or not or a replay, the planner is the   *)
(* first stage, the generator starts only when the planner has returned,   *)
(* the explainer only when the generator has returned, the append only     *)
(* when the explainer has returned; while the planner runs there is no     *)
(* plan and no code, and while the explainer runs there is a plan and code *)
(* that passed the safety check.                                           *)
(***************************************************************************)
Ordered(t) ==
    /\ \A i \in 1..Len(t) : t[i] = "planner" <=> i = 1
    /\ Follows(t, "planner_returned", "oracle")
    /\ Follows(t, "generator", "planner_returned")
    /\ Follows(t, "generator_returned", "generator")
    /\ Follows(t, "generator_threw", "generator")
    /\ Follows(t, "explainer", "generator_returned")
    /\ Follows(t, "explainer_returned", "oracle")
    /\ Follows(t, "append", "explainer_returned")
    /\ \A i \in 1..Len(t) : t[i] = "explainer_returned" => (i > 2 /\ t[i - 2] = "explainer")

C2_StagesInOrder ==
    /\ \A r \in Requests :
         LET p == procs[r] IN
         /\ Ordered(p.trace)
         /\ p.pc = "idle" => p.trace = << >>
         /\ p.pc = "planner_await" =>
              (p.trace = << "planner", "oracle" >> /\ p.plan = Undefined /\ p.code = << >>)
         /\ p.pc = "explainer_await" =>
              /\ p.trace = SubSeq(FullTrace, 1, 7)
              /\ p.plan # Undefined
              /\ includes(p.code, Txt_uiImport)
              /\ ~includes(p.code, Txt_styleOpen)
    /\ Ordered(out.trace)
    /\ (out.route \in PipelineRoutes /\ Delivered(out) # << >>) => out.trace = FullTrace

\* A replay has run all its stages and answers with its version.
C2_Witness ==
    /\ out.route = "replay"
    /\ Delivered(out) # << >>
    /\ out.trace = FullTrace

(***************************************************************************)
(* C3: runPlanner returns the plan of the oracle only when the text of the *)
(* oracle parses as JSON and the value passes validatePlan; when the text  *)
(* does not parse or the value fails validatePlan it returns the plan of   *)
(* the deterministic path: buildIntentAwarePlan when there is no prior     *)
(* plan or the request starts over, mergeModification otherwise.           *)
(***************************************************************************)
C3_OracleTrustedOnlyWhenValid ==
    (call.fn = "runPlanner" /\ call.applied) =>
        LET raw == call.llmRaw
            parsed == IF raw.t = "string" THEN JSONParse(raw.v) ELSE Fail
            accepted == raw.t = "string" /\ parsed.ok /\ validatePlan(parsed.v).valid
            clean == filterPromptInjection(call.input.intent).clean
            startOver == call.input.regenerateFromScratch \/ test(startOverPattern, clean)
            deterministic ==
                IF call.input.priorPlan = Undefined \/ startOver
                THEN buildIntentAwarePlan(clean)
                ELSE mergeModification(clean, call.input.priorPlan, now).plan
        IN /\ call.value.path = "llm" => accepted
           /\ accepted => call.value.plan = validatePlan(parsed.v).plan
           /\ ~accepted => (call.value.path # "llm" /\ call.value.plan = deterministic)

\* The oracle has sent JSON that is no plan, and the planner has modified
\* the prior plan instead.
C3_Witness ==
    /\ call.fn = "runPlanner"
    /\ call.applied
    /\ call.llmRaw = JStr(Stringify(OracleUnknownPlan, 0, 0))
    /\ call.input.priorPlan # Undefined
    /\ call.value.path = "merge"

(***************************************************************************)
(* C4: whatever way the call of the oracle fails, the request it belongs   *)
(* to still answers with a stored snapshot.                                *)
(***************************************************************************)
C4_OracleFailureStillStores ==
    (out.route \in PipelineRoutes /\ \E k \in FaultKinds : Has(out.trace, k)) =>
        (Delivered(out) # << >> /\ ~ReportsError(out))

(***************************************************************************)
(* C5: no step changes a snapshot of the store or its position: not the    *)
(* reads of the versions route, not a request, not the modification or the *)
(* replay that works on the plan of the snapshot.                          *)
(***************************************************************************)
C5_Step ==
    /\ Len(versions') >= Len(versions)
    /\ \A i \in 1..Len(versions) : versions'[i] = versions[i]

C5_HistoryImmutable == [][C5_Step]_vars

\* A modification of the first snapshot, and the replay of that
\* modification, are in the store.
C5_Witness ==
    /\ Len(versions) = 3
    /\ versions[2].action = Txt_modify
    /\ versions[2].baseVersionId = JStr(versions[1].id)
    /\ versions[2].plan # versions[1].plan
    /\ versions[3].action = Txt_modify
    /\ MatchAt(versions[3].explanation, 1, Txt_replayOpen \o versions[2].id)

(***************************************************************************)
(* C6: the ids of the snapshots of the store are pairwise distinct.        *)
(***************************************************************************)
C6_IdsDistinct ==
    \A i, j \in 1..Len(versions) : i # j => versions[i].id # versions[j].id

(***************************************************************************)
(* C7: list() holds every snapshot of the store once, the later appended   *)
(* before the earlier, so it starts with the snapshot latest() gives; on   *)
(* the empty store list() is empty and latest() gives none.                *)
(***************************************************************************)
C7_ListNewestFirst ==
    LET l == list(versions)
        n == Len(versions)
    IN /\ Len(l) = n
       /\ \A i \in 1..n : l[i] = versions[n + 1 - i]
       /\ n = 0 => (l = << >> /\ latest(versions) = 0)
       /\ n > 0 => l[1] = versions[latest(versions)]
       /\ out.route = "versions_get" => out.versions = l

\* The versions route lists three snapshots, two of them of one millisecond.
C7_Witness ==
    /\ out.route = "versions_get"
    /\ Len(out.versions) = 3
    /\ out.versions[1].createdAt = out.versions[2].createdAt
    /\ out.versions[2].createdAt # out.versions[3].createdAt

(***************************************************************************)
(* C8: with requests that run together, a step either leaves the store as  *)
(* it is or appends one fully formed snapshot to it, and it appends        *)
(* exactly when a request answers with its version; a reader of the        *)
(* versions route gets the snapshots of the store as they are.             *)
(***************************************************************************)
FullyFormed(v) ==
    /\ v.id # << >>
    /\ v.createdAt # << >>
    /\ v.intent # << >>
    /\ v.plan # Undefined
    /\ v.code # << >>
    /\ v.explanation # << >>

C8_Step ==
    /\ \/ versions' = versions /\ appended' = appended
       \/ /\ Len(versions') = Len(versions) + 1
          /\ SubSeq(versions', 1, Len(versions)) = versions
          /\ FullyFormed(versions'[Len(versions')])
          /\ appended' = appended + 1
          /\ Answers
          /\ Delivered(out') = << versions'[Len(versions')] >>
    /\ Len(versions') = appended'
    /\ (out' # out /\ out'.route = "versions_get") =>
          /\ Len(out'.versions) = Len(versions)
          /\ \A i \in 1..Len(versions) : Has(out'.versions, versions[i])

C8_AppendsNeverLost == [][C8_Step]_vars

\* Two requests have run together (the second started on the empty store)
\* and both have appended.
C8_Witness ==
    /\ Len(versions) = 2
    /\ appended = 2
    /\ versions[1].baseVersionId = Undefined
    /\ versions[2].baseVersionId = Undefined

(***************************************************************************)
(* C9: rollback and replay answer an id that no snapshot has with status   *)
(* 404, a missing id with status 400, and any other id with neither; the   *)
(* step that answers 404 starts no stage and leaves the store as it is.    *)
(***************************************************************************)
C9_Step ==
    (out' # out /\ out'.route \in {"replay", "versions_post"}) =>
        IF ~Truthy(out'.input)
        THEN out'.status = 400
        ELSE IF out'.input.v \notin IdsOf(versions)
        THEN /\ out'.status = 404
             /\ out'.trace = << >>
             /\ out'.version = NoVersion
             /\ versions' = versions
             /\ procs' = procs
        ELSE out'.status \notin {400, 404}

C9_UnknownIdIsNotFound == [][C9_Step]_vars

\* A replay of an id that none of the stored snapshots has.
C9_Witness ==
    /\ out.route = "replay"
    /\ out.status = 404
    /\ Truthy(out.input)
    /\ Len(versions) > 0
    /\ out.input.v \notin IdsOf(versions)

(***************************************************************************)
(* C10: a request without an intent, streamed or not, is answered with no  *)
(* stage run and no stage reported to the caller as started.               *)
(***************************************************************************)
C10_BlankIntentStartsNothing ==
    (out.route \in {"agent", "stream"} /\ Blank(out.input)) =>
        /\ out.trace = << >>
        /\ \A i \in 1..Len(out.events) : out.events[i].type # "status"

(***************************************************************************)
(* src/lib/llm.ts: parsePlanFromCode.                                      *)
(***************************************************************************)
\* /const\s+uiPlanJson\s*=\s*`/, the part of the pattern before the group.
uiPlanJsonOpen ==
    << Lit(<<"c","o","n","s","t">>), Plus(WhiteSpace), Lit(<<"u","i","P","l","a","n","J","s","o","n">>), Star(WhiteSpace), Lit(<<"=">>),
       Star(WhiteSpace), Lit(<< BT >>) >>

\* code.match(/const\s+uiPlanJson\s*=\s*`([\s\S]*?)`;/)?.[1]: the group of the
\* leftmost match, which ends before the first backtick and semicolon after
\* the opening backtick; found is FALSE when there is no match.
uiPlanJsonMatch(code) ==
    LET opens(p) == EndsFrom(code, p, uiPlanJsonOpen, 1)
        closes(e) == {q \in e..Len(code) : MatchAt(code, q, << BT, ";" >>)}
        starts == {p \in 1..Len(code) : \E e \in opens(p) : closes(e) # {}}
        start == CHOOSE p \in starts : \A q \in starts : p <= q
        from == CHOOSE e \in opens(start) : closes(e) # {}
        upto == CHOOSE q \in closes(from) : \A r \in closes(from) : q <= r
    IN IF starts = {} THEN [found |-> FALSE, group |-> << >>]
       ELSE [found |-> TRUE, group |-> SubSeq(code, from, upto - 1)]

\* validatePlan on the value JSON.parse returned.
ValidateParsed(parsed) ==
    IF parsed.ok THEN validatePlan(parsed.v)
    ELSE [valid |-> FALSE, plan |-> Undefined, error |-> << >>]

\* The body of parsePlanFromCode once the expression is matched, the group
\* parsed and the value validated.
PlanFromMatch(match, parsed, validation) ==
    IF ~match.found \/ match.group = << >>
       THEN [valid |-> FALSE, plan |-> Undefined, error |-> <<"C","o","u","l","d"," ","n","o","t"," ","f","i","n","d"," ","u","i","P","l","a",
                                                    "n","J","s","o","n"," ","i","n"," ","g","e","n","e","r","a","t","e","d"," ","c",
                                                    "o","d","e">>]
       ELSE IF ~parsed.ok
       THEN [valid |-> FALSE, plan |-> Undefined, error |-> <<"I","n","v","a","l","i","d"," ","u","i","P","l","a","n","J","s","o","n"," ","p",
             "a","y","l","o","a","d">>]
       ELSE IF ~validation.valid
       THEN [valid |-> FALSE, plan |-> Undefined, error |-> validation.error]
       ELSE [valid |-> TRUE, plan |-> validation.plan, error |-> << >>]

\* parsePlanFromCode from the parse of the group on.
ParseMatched(match, parsed) == PlanFromMatch(match, parsed, ValidateParsed(parsed))

\* parsePlanFromCode from the match on.
ParseGroup(match) == ParseMatched(match, JSONParse(match.group))

parsePlanFromCode(code) == ParseGroup(uiPlanJsonMatch(code))

(***************************************************************************)
(* src/app/page.tsx: buildLineDiff.                                        *)
(***************************************************************************)
DiffLine(kind, text) == [kind |-> kind, text |-> text]

\* dp[i][j] of buildLineDiff for the lines a and b: the length of a longest
\* common subsequence of a[i..] and b[j..], with i and j counted from 0.
DiffTable(a, b) ==
    LET m == Len(a)
        n == Len(b)
        dp[p \in (0..m) \X (0..n)] ==
            IF p[1] = m \/ p[2] = n THEN 0
            ELSE IF a[p[1] + 1] = b[p[2] + 1] THEN dp[<<p[1] + 1, p[2] + 1>>] + 1
            ELSE IF dp[<<p[1] + 1, p[2]>>] >= dp[<<p[1], p[2] + 1>>]
                 THEN dp[<<p[1] + 1, p[2]>>]
                 ELSE dp[<<p[1], p[2] + 1>>]
    IN dp

RECURSIVE DiffWalk(_, _, _, _, _, _)
\* The two loops that walk a and b from i and j, with out written so far;
\* tail says whether the last loop, over the rest of b, runs.
DiffWalk(a, b, dp, i, j, tail) ==
    IF i < Len(a) /\ j < Len(b)
    THEN IF a[i + 1] = b[j + 1]
         THEN << DiffLine("same", a[i + 1]) >> \o DiffWalk(a, b, dp, i + 1, j + 1, tail)
         ELSE IF dp[<<i + 1, j>>] >= dp[<<i, j + 1>>]
         THEN << DiffLine("removed", a[i + 1]) >> \o DiffWalk(a, b, dp, i + 1, j, tail)
         ELSE << DiffLine("added", b[j + 1]) >> \o DiffWalk(a, b, dp, i, j + 1, tail)
    ELSE [k \in 1..(Len(a) - i) |-> DiffLine("removed", a[i + k])]
         \o (IF tail THEN [k \in 1..(Len(b) - j) |-> DiffLine("added", b[j + k])] ELSE << >>)

\* A variant of buildLineDiff without the loop over the rest of the target.
buildLineDiffWithoutTail(source, target) ==
    LET a == SplitChar(source, "\n")
        b == SplitChar(target, "\n")
    IN DiffWalk(a, b, DiffTable(a, b), 0, 0, FALSE)

buildLineDiff(source, target) ==
    LET a == SplitChar(source, "\n")
        b == SplitChar(target, "\n")
    IN DiffWalk(a, b, DiffTable(a, b), 0, 0, TRUE)

(***************************************************************************)
(* The functions of the library on their own: a call is drawn at the       *)
(* start, and one step applies the function to its arguments.              *)
(***************************************************************************)
(* Payloads for validatePlan: one well-formed node of every kind of the    *)
(* library, nodes with one fault each, and each of them again one and two  *)
(* levels down in a container.                                             *)
(***************************************************************************)
Node(id, component, props) ==
    JObj(<< <<Txt_id, JStr(id)>>, <<Txt_component, JStr(component)>>, <<Txt_props, props>> >>)
WithChildren(node, kids) == Put(node, Txt_children, JArr(kids))

GoodButton  == Node(<<"b", "1">>, Txt_Button, Props1(Txt_label, JStr(<<"G", "o">>)))
GoodCard    == Node(<<"c", "1">>, Txt_Card, Props1(Txt_title, JStr(<<"T">>)))
GoodInput   == Node(<<"i", "1">>, Txt_Input, Props1(Txt_label, JStr(<<"Q">>)))
GoodTable   == Node(<<"t", "1">>, Txt_Table,
                    Props2(Txt_columns, StrList(<< <<"A">> >>),
                           Txt_rows, JArr(<< StrList(<< <<"x">> >>) >>)))
GoodModal   == Node(<<"m", "1">>, Txt_Modal, Props2(Txt_title, JStr(<<"M">>), Txt_open, JBool(TRUE)))
GoodSidebar == Node(<<"s", "1">>, Txt_Sidebar,
                    Props2(Txt_title, JStr(<<"S">>), Txt_items, StrList(<< <<"a">> >>)))
GoodNavbar  == Node(<<"n", "1">>, Txt_Navbar,
                    Props2(Txt_title, JStr(<<"N">>), Txt_links, StrList(<< <<"a">>, <<"b">> >>)))
GoodChart   == Node(<<"h", "1">>, Txt_Chart,
                    Props2(Txt_title, JStr(<<"C">>),
                           Txt_data, JArr(<< Props2(Txt_label, JStr(<<"a">>), Txt_value, JNum(1)) >>)))
GoodLeaves ==
    { GoodButton, GoodCard, GoodInput, GoodTable, GoodModal, GoodSidebar, GoodNavbar, GoodChart }

\* A Button that carries a key of the Table, and a Table that carries children.
ButtonWithRows ==
    Node(<<"b", "2">>, Txt_Button, Props2(Txt_label, JStr(<<"G", "o">>), Txt_rows, JArr(<< >>)))
TableWithChildren == WithChildren(GoodTable, << GoodButton >>)

FaultyLeaves ==
    { ButtonWithRows,
      TableWithChildren,
      \* a key is missing, is empty, is of another type, is outside its enumeration
      Node(<<"b", "3">>, Txt_Button, JObj(<< >>)),
      Node(<<"b", "4">>, Txt_Button, Props1(Txt_label, JStr(<< >>))),
      Node(<<"b", "5">>, Txt_Button, Props1(Txt_label, JNum(1))),
      Node(<<"b", "6">>, Txt_Button, Props2(Txt_label, JStr(<<"G", "o">>), Txt_variant, JStr(<<"x">>))),
      Node(<<"m", "2">>, Txt_Modal, Props2(Txt_title, JStr(<<"M">>), Txt_open, JStr(<<"y">>))),
      Node(<<"t", "2">>, Txt_Table,
           Props2(Txt_columns, StrList(<< <<"A">> >>), Txt_rows, JArr(<< JStr(<<"x">>) >>))),
      Node(<<"h", "2">>, Txt_Chart,
           Props2(Txt_title, JStr(<<"C">>),
                  Txt_data, JArr(<< Props2(Txt_label, JStr(<<"a">>), Txt_value, JStr(<<"1">>)) >>))),
      WithChildren(GoodButton, << GoodButton >>),
      \* the node itself is not of the shape
      Node(<< >>, Txt_Button, Props1(Txt_label, JStr(<<"G", "o">>))),
      Node(<<"x", "1">>, <<"F", "o", "o">>, JObj(<< >>)),
      Node(<<"x", "2">>, Txt_Button, JArr(<< >>)),
      Node(<<"x", "3">>, Txt_Button, JNull),
      JObj(<< <<Txt_id, JStr(<<"x", "4">>)>>, <<Txt_component, JStr(Txt_Button)>> >>),
      JObj(<< <<Txt_id, JStr(<<"x", "5">>)>>, <<Txt_props, JObj(<< >>)>> >>),
      JObj(<< <<Txt_id, JNum(7)>>, <<Txt_component, JStr(Txt_Card)>>,
              <<Txt_props, Props1(Txt_title, JStr(<<"T">>))>> >>),
      Put(GoodCard, Txt_children, JStr(<<"x">>)),
      JStr(<<"n", "o">>) }

\* Nodes that differ from the well-formed ones and still are of the shape:
\* a label with quotes, a backslash, a line feed and a backtick, an empty
\* list of children, and a key the node schema does not know.
QuotedButton ==
    Node(<<"b", "7">>, Txt_Button, Props1(Txt_label, JStr(<<"a", "\"", "\\", "\n", BT, ";", "b">>)))
NotedButton == Put(GoodButton, <<"n", "o", "t", "e">>, JStr(<<"x">>))

OddLeaves ==
    { QuotedButton,
      WithChildren(GoodTable, << >>),
      WithChildren(GoodCard, << >>),
      NotedButton }

Leaves == GoodLeaves \cup FaultyLeaves \cup OddLeaves
InCard(n) == WithChildren(GoodCard, << GoodInput, n >>)
InModal(n) == WithChildren(GoodModal, << n >>)
NodeInputs == Leaves \cup { InCard(n) : n \in Leaves } \cup { InModal(InCard(n)) : n \in Leaves }

PlanWith(mode, nodes) == JObj(<< <<Txt_mode, mode>>, <<Txt_root, JArr(nodes)>> >>)

PlanPayloads ==
    { PlanWith(JStr(Txt_stack), << n >>) : n \in NodeInputs }
    \cup { PlanWith(JStr(Txt_grid), << GoodNavbar, n >>) : n \in Leaves }
    \cup { PlanWith(mode, << GoodButton >>) :
             mode \in { JStr(Txt_split), JStr(<<"r", "o", "w">>), JStr(<< >>), JNum(1), JNull } }
    \cup { JObj(<< <<Txt_root, JArr(<< GoodButton >>)>> >>),
           JObj(<< <<Txt_mode, JStr(Txt_stack)>> >>),
           PlanWith(JStr(Txt_stack), << >>),
           JObj(<< <<Txt_mode, JStr(Txt_stack)>>, <<Txt_root, GoodButton>> >>),
           Put(PlanWith(JStr(Txt_stack), << GoodButton >>), Txt_modificationInstructions, JStr(<<"x">>)),
           Put(PlanWith(JStr(Txt_stack), << GoodButton >>), Txt_modificationInstructions, JNum(1)),
           Put(PlanWith(JStr(Txt_stack), << GoodButton >>), <<"n", "o", "t", "e">>, JStr(<<"x">>)),
           JObj(<< >>), JArr(<< >>), JNull, JStr(Txt_stack), Undefined }

ValidatePlanCalls ==
    [fn : {"validatePlan"}, input : PlanPayloads, applied : {FALSE}, value : {Undefined}]

\* The variables a call of a function of the library leaves alone.
LibraryFrame == UNCHANGED << versions, now, apiKey, procs, out, served, appended >>

ApplyValidatePlan ==
    /\ call.fn = "validatePlan"
    /\ ~call.applied
    /\ call' = [call EXCEPT !.applied = TRUE, !.value = validatePlan(call.input)]
    /\ LibraryFrame

\* serialize, parse and validate again a payload that validatePlan accepts.
RevalidateCalls ==
    [fn : {"revalidate"}, input : PlanPayloads, applied : {FALSE}, value : {Undefined}]

\* The two results: of the first call, and of the call on the payload read
\* back from its JSON text when the first call accepted it.
Revalidation(payload, first) ==
    [first |-> first,
     again |-> IF first.valid THEN ValidateParsed(JSONParse(Stringify(payload, 0, 0)))
               ELSE Undefined]

ApplyRevalidate ==
    /\ call.fn = "revalidate"
    /\ ~call.applied
    /\ call' = [call EXCEPT !.applied = TRUE,
                            !.value = Revalidation(call.input, validatePlan(call.input))]
    /\ LibraryFrame

(***************************************************************************)
(* runPlanner called again and again with one input, the oracle            *)
(* unavailable and no prior plan, with other planner calls and ticks of    *)
(* the clock in between.                                                   *)
(***************************************************************************)
MaxRepeats == 2

\* The first intent of the example in src/tests.
FirstIntent ==
    <<"C","r","e","a","t","e"," ","a"," ","d","a","s","h","b","o","a","r","d"," ","w","i","t","h"," ",
      "n","a","v","b","a","r",","," ","s","i","d","e","b","a","r",","," ","c","a","r","d"," ","a","n",
      "d"," ","c","h","a","r","t">>

RepeatIntents ==
    { Txt_card,
      Txt_dashboard,
      Txt_Card \o Space \o Txt_and \o Space \o Txt_Chart,
      Txt_login \o Space \o Txt_form,
      Txt_simple \o Space \o Txt_table \o Space \o Txt_list,
      Txt_social \o Space \o Txt_feed \o Space \o Txt_with \o Space \o Txt_settings,
      <<"<", "b", ">">> \o Space \o Txt_store \o Space \o Txt_sidebar,
      FirstIntent,
      Txt_button,
      Txt_chart \o Space \o Txt_modal,
      << >> }

RepeatCalls ==
    [fn : {"runPlannerRepeat"},
     input : [intent : RepeatIntents, priorPlan : {Undefined}, regenerateFromScratch : BOOLEAN],
     applied : {FALSE},
     value : {[plans |-> << >>, at |-> << >>, between |-> << >>]}]

\* One more call with the same input.
ApplyRunPlannerAgain ==
    /\ call.fn = "runPlannerRepeat"
    /\ Len(call.value.plans) < MaxRepeats
    /\ call' = [call EXCEPT !.applied = TRUE,
                            !.value.plans = Append(@, runPlanner(call.input, JNull, now).plan),
                            !.value.at = Append(@, now)]
    /\ LibraryFrame

\* A planner call with another intent between two calls with the same one.
ApplyRunPlannerBetween(other) ==
    /\ call.fn = "runPlannerRepeat"
    /\ Len(call.value.plans) = 1
    /\ call.value.between = << >>
    /\ other # call.input.intent
    /\ call' = [call EXCEPT !.value.between =
                    << runPlanner([call.input EXCEPT !.intent = other], JNull, now).plan >>]
    /\ LibraryFrame

(***************************************************************************)
(* Plans for runGenerator: the payloads of validatePlan, and plans that    *)
(* validatePlan accepts and whose texts the checks on code refuse.         *)
(***************************************************************************)
LabelledPlan(label) ==
    PlanWith(JStr(Txt_split), << InCard(Node(<<"b", "8">>, Txt_Button, Props1(Txt_label, JStr(label)))) >>)

ForbiddenLabels ==
    { Txt_styleOpen,
      Txt_dangerous,
      <<"f","r","o","m"," ","'","f","s","'">> }

GeneratorPlans == PlanPayloads \cup { LabelledPlan(label) : label \in ForbiddenLabels }

RunGeneratorCalls ==
    [fn : {"runGenerator"}, input : GeneratorPlans, applied : {FALSE}, value : {Undefined}]

ApplyRunGenerator ==
    /\ call.fn = "runGenerator"
    /\ ~call.applied
    /\ call' = [call EXCEPT !.applied = TRUE, !.value = runGenerator(call.input)]
    /\ LibraryFrame

(***************************************************************************)
(* runGenerator and then parsePlanFromCode on the code it returns, for     *)
(* plans that validatePlan accepts: the well-formed nodes, and labels with *)
(* the characters that the embedding has to carry.                         *)
(***************************************************************************)
EmbeddedLabels ==
    { <<"a", "\"", "b">>,
      <<"a", "\\", "b">>,
      <<"a", "\\", "\"">>,
      <<"a", ";", "b">>,
      <<"a", "\n", "b">>,
      <<"$", "{", "x", "}">>,
      <<"a", BT, "b">>,
      <<"a", BT, ";", "b">>,
      <<"\\", BT>>,
      << BT, BT >> }

EmbeddedPlans ==
    { PlanWith(JStr(Txt_stack), << n >>) : n \in GoodLeaves }
    \cup { PlanWith(JStr(Txt_grid), << GoodNavbar, InModal(InCard(n)) >>) : n \in GoodLeaves }
    \cup { LabelledPlan(label) : label \in EmbeddedLabels }

ParsePlanFromCodeCalls ==
    [fn : {"parsePlanFromCode"}, input : EmbeddedPlans, applied : {FALSE}, value : {Undefined}]

\* What parsePlanFromCode reads back from the code runGenerator returned.
Embedded(generated) ==
    [generated |-> generated,
     parsed |-> IF generated.ok THEN parsePlanFromCode(generated.code) ELSE Undefined]

ApplyParsePlanFromCode ==
    /\ call.fn = "parsePlanFromCode"
    /\ ~call.applied
    /\ call' = [call EXCEPT !.applied = TRUE, !.value = Embedded(runGenerator(call.input))]
    /\ LibraryFrame

(***************************************************************************)
(* Code strings for buildLineDiff: one to three lines, each of them x, y   *)
(* or empty.                                                               *)
(***************************************************************************)
MaxDiffLines == 3

DiffTexts ==
    { Join(lines, << "\n" >>) :
        lines \in UNION { [1..k -> { <<"x">>, <<"y">>, << >> }] : k \in 1..MaxDiffLines } }

BuildLineDiffCalls ==
    [fn : {"buildLineDiff"}, input : DiffTexts \X DiffTexts, applied : {FALSE}, value : {Undefined}]

ApplyBuildLineDiff ==
    /\ call.fn = "buildLineDiff"
    /\ ~call.applied
    /\ call' = [call EXCEPT !.applied = TRUE,
                            !.value = buildLineDiff(call.input[1], call.input[2])]
    /\ LibraryFrame

(***************************************************************************)
(* filterPromptInjection on every short string over an angle bracket, a    *)
(* blank and a letter, and on intents with the phrasings it looks for.     *)
(***************************************************************************)
MaxFilterLen == 3

FilterAlphabet == {"<", ">", " ", "a"}

FilterInputs ==
    UNION { [1..n -> FilterAlphabet] : n \in 0..MaxFilterLen }
    \cup { Txt_ignore \o Space \o Txt_all \o Space \o Txt_instructions,
           <<" ", "<">> \o Txt_system \o Space \o Txt_prompt \o <<">", "\n">>,
           <<"\t", "<", "\n">> \o Txt_card \o <<"\r">>,
           Txt_bypass \o <<"<", " ">> \o Txt_safety,
           \* a phrasing with angle brackets inside it
           Txt_system \o <<" ", "<", ">">> \o Txt_prompt }

FilterPromptInjectionCalls ==
    [fn : {"filterPromptInjection"}, input : FilterInputs, applied : {FALSE},
     value : {Undefined}]

ApplyFilterPromptInjection ==
    /\ call.fn = "filterPromptInjection"
    /\ ~call.applied
    /\ call' = [call EXCEPT !.applied = TRUE, !.value = filterPromptInjection(call.input)]
    /\ LibraryFrame

(***************************************************************************)
(* analyzeGeneratedCode on code put together from pieces that each bring   *)
(* one finding, or the tags of the plan, for a plan whose components the   *)
(* tags cover and for one whose Table no piece renders.                    *)
(***************************************************************************)
AnalysisPieces ==
    << Txt_dangerous,
       Txt_styleOpen,
       Txt_classNameDyn,
       <<"<", "F", "o", "o", " ", "/", ">">>,
       <<"<">> \o Txt_Card \o <<">", "<">> \o Txt_Input \o <<" ", "/", ">", "<">> \o Txt_Button
           \o <<" ", "/", ">">> >>

\* The pieces chosen, one to a line.
AnalysisCode(chosen) ==
    LET part[i \in 0..Len(AnalysisPieces)] ==
            IF i = 0 THEN << >>
            ELSE part[i - 1] \o (IF i \in chosen THEN AnalysisPieces[i] \o <<"\n">> ELSE << >>)
    IN part[Len(AnalysisPieces)]

AnalysisPlans ==
    { PlanWith(JStr(Txt_stack), << InCard(GoodButton) >>),
      PlanWith(JStr(Txt_stack), << GoodTable >>) }

AnalyzeGeneratedCodeCalls ==
    [fn : {"analyzeGeneratedCode"},
     input : [code : { AnalysisCode(chosen) : chosen \in SUBSET (1..Len(AnalysisPieces)) },
              plan : AnalysisPlans],
     applied : {FALSE},
     value : {Undefined}]

ApplyAnalyzeGeneratedCode ==
    /\ call.fn = "analyzeGeneratedCode"
    /\ ~call.applied
    /\ call' = [call EXCEPT !.applied = TRUE,
                            !.value = analyzeGeneratedCode(call.input.code, call.input.plan)]
    /\ LibraryFrame

(***************************************************************************)
(* runPlanner without the oracle on a prior plan and an intent that asks   *)
(* for a minimal layout and a settings modal: the prior plans are the one  *)
(* of the example in src/tests, and plans with a Navbar or a Modal at the  *)
(* top or inside a Card.                                                   *)
(***************************************************************************)
MinimalSettingsIntents ==
    { <<"A","d","d"," ","a"," ","s","e","t","t","i","n","g","s"," ","m","o","d","a","l"," ","a","n","d",
        " ","m","a","k","e"," ","t","h","e"," ","l","a","y","o","u","t"," ","m","i","n","i","m","a","l">>,
      <<"K","e","e","p"," ","i","t"," ","s","i","m","p","l","e",","," ","w","i","t","h"," ","a"," ","s",
        "e","t","t","i","n","g","s"," ","d","i","a","l","o","g">> }

MergePriors ==
    { buildIntentAwarePlan(FirstIntent),
      PlanWith(JStr(Txt_grid), << GoodNavbar, GoodCard >>),
      PlanWith(JStr(Txt_grid), << GoodNavbar, GoodModal >>),
      PlanWith(JStr(Txt_grid), << WithChildren(GoodCard, << GoodNavbar >>) >>),
      PlanWith(JStr(Txt_grid), << GoodNavbar, WithChildren(GoodCard, << GoodModal >>) >>) }

\* Intents for the other branches of mergeModification: each kind that add
\* phrasing can append, one with angle brackets for the filter to remove, a
\* conversion, an intent that fires no branch, and intents that fire
\* several branches at once.
ModifyIntents ==
    { <<"A","d","d"," ","a"," ","c","h","a","r","t">>,
      <<"I","n","c","l","u","d","e"," ","a"," ","t","a","b","l","e">>,
      <<"I","n","s","e","r","t"," ","a","n"," ","i","n","p","u","t"," ","<","h","e","r","e",">">>,
      <<"C","o","n","v","e","r","t"," ","t","o"," ","a"," ","t","a","b","l","e"," ","v","i","e","w">>,
      <<"M","a","k","e"," ","i","t"," ","b","l","u","e">>,
      <<"A","d","d"," ","a"," ","s","e","t","t","i","n","g","s"," ","m","o","d","a","l"," ","a","n","d",
        " ","a"," ","c","h","a","r","t",","," ","k","e","e","p"," ","i","t"," ","c","l","e","a","n">>,
      <<"T","u","r","n"," ","i","n","t","o"," ","a"," ","s","i","m","p","l","e"," ","l","i","s","t",",",
        " ","a","d","d"," ","a"," ","s","e","t","t","i","n","g","s"," ","m","o","d","a","l">> }

\* Prior plans that hold a Chart, a Table or an Input at the top or as a
\* child of a Card.
AddPriors ==
    { PlanWith(JStr(Txt_grid), << GoodNavbar, WithChildren(GoodCard, << GoodChart >>) >>),
      PlanWith(JStr(Txt_grid), << GoodInput >>),
      PlanWith(JStr(Txt_grid), << GoodTable >>),
      PlanWith(JStr(Txt_grid), << WithChildren(GoodCard, << GoodTable, GoodInput >>) >>) }

MergeCalls ==
    [fn : {"mergeModification"},
     input : [intent : MinimalSettingsIntents \cup ModifyIntents,
              priorPlan : MergePriors \cup AddPriors,
              regenerateFromScratch : {FALSE}],
     applied : {FALSE},
     value : {Undefined}]

\* The result of runPlanner, and the result of runPlanner applied later with
\* the same intent to the plan it returned.
MergedTwice(input, first, later) ==
    [plan |-> first.plan, warnings |-> first.warnings, path |-> first.path,
     prior |-> first.prior,
     again |-> runPlanner([input EXCEPT !.priorPlan = first.plan], JNull, later)]

ApplyMergeModification ==
    /\ call.fn = "mergeModification"
    /\ ~call.applied
    /\ call' = [call EXCEPT !.applied = TRUE,
                            !.value = MergedTwice(call.input,
                                                  runPlanner(call.input, JNull, now), now + 1)]
    /\ LibraryFrame

(***************************************************************************)
(* runExplainer after the oracle has answered nothing or a text, for plans *)
(* with a kind twice at the top level and with kinds that only children    *)
(* have.                                                                   *)
(***************************************************************************)
ExplainerPlans ==
    { PlanWith(JStr(Txt_split), << GoodNavbar, GoodCard, GoodChart, GoodCard >>),
      PlanWith(JStr(Txt_stack), << GoodTable >>),
      PlanWith(JStr(Txt_grid), << GoodNavbar, WithChildren(GoodCard, << GoodInput, GoodButton >>) >>),
      PlanWith(JStr(Txt_grid), << InModal(InCard(GoodButton)) >>) }

RunExplainerCalls ==
    [fn : {"runExplainer"},
     input : [plan : ExplainerPlans, isModification : BOOLEAN,
              llm : { JNull, JStr(<<"O", "K", ".">>) }],
     applied : {FALSE},
     value : {Undefined}]

ApplyRunExplainer ==
    /\ call.fn = "runExplainer"
    /\ ~call.applied
    /\ call' = [call EXCEPT !.applied = TRUE,
                            !.value = runExplainer(call.input, call.input.llm)]
    /\ LibraryFrame

LibraryCalls == ValidatePlanCalls \cup RevalidateCalls \cup RepeatCalls
    \cup RunGeneratorCalls \cup ParsePlanFromCodeCalls
    \cup BuildLineDiffCalls \cup FilterPromptInjectionCalls \cup AnalyzeGeneratedCodeCalls
    \cup MergeCalls \cup RunExplainerCalls

LibraryInit ==
    /\ versions = << >>
    /\ now = 0
    /\ apiKey = FALSE
    /\ procs = [r \in Requests |-> Idle]
    /\ out = NoResponse
    /\ served = 0
    /\ appended = 0
    /\ call \in LibraryCalls

LibraryNext ==
    \/ ApplyValidatePlan
    \/ ApplyRevalidate
    \/ ApplyRunPlannerAgain
    \/ \E other \in RepeatIntents : ApplyRunPlannerBetween(other)
    \/ ApplyRunGenerator
    \/ ApplyParsePlanFromCode
    \/ ApplyBuildLineDiff
    \/ ApplyFilterPromptInjection
    \/ ApplyAnalyzeGeneratedCode
    \/ ApplyMergeModification
    \/ ApplyRunExplainer
    \/ call.fn = "runPlannerRepeat" /\ Tick

LibrarySpec == LibraryInit /\ [][LibraryNext]_vars

(***************************************************************************)
(* Replays in the history of one client without credentials: it generates  *)
(* from two intents that ask for different components, modifies the latest *)
(* snapshot, and replays snapshots of the store.                           *)
(***************************************************************************)
MaxReplayed == 4

ReplayBodies ==
    { [intent |-> JStr(Txt_card), action |-> Undefined, baseVersionId |-> Undefined],
      [intent |-> JStr(Txt_table), action |-> Undefined, baseVersionId |-> Undefined],
      [intent |-> JStr(Txt_add \o Space \o Txt_chart), action |-> JStr(Txt_modify),
       baseVersionId |-> Undefined] }

ReplayNext ==
    \/ /\ served < MaxReplayed
       /\ \E body \in ReplayBodies : ExecutePipeline(1, body)
    \/ /\ served < MaxReplayed
       /\ \E id \in IdsOf(versions) : ReplayPost(1, JStr(id))
    \/ \E outcome \in OutcomesFor(apiKey, PlannerOutcomes) : PlannerResumes(1, outcome)
    \/ \E outcome \in OutcomesFor(apiKey, ExplainerOutcomes) :
           \E random \in OneSuffix : ExplainerResumes(1, outcome, random)
    \/ Send
    \/ Tick

ReplaySpec == HistoryInit /\ [][ReplayNext]_vars

(***************************************************************************)
(* Requests of one client without credentials whose intents carry the      *)
(* texts the check on generated code looks for.                            *)
(***************************************************************************)
MaxOffline == 2

OfflineIntents ==
    { JStr(IntentCard),
      JStr(<<"A","d","d"," ","a"," ","t","a","b","l","e"," ","<","b",">">>),
      JStr(<<"A","d","d"," ","s","t","y","l","e","=","{","{"," ","c","o","l","o","r"," ","}","}"," ","t","o",
           " ","t","h","e"," ","c","a","r","d">>) }

OfflineBodies ==
    [intent : OfflineIntents, action : Actions, baseVersionId : {Undefined}]

OfflineHandlers ==
    \/ \E outcome \in OutcomesFor(apiKey, PlannerOutcomes) : PlannerResumes(1, outcome)
    \/ \E outcome \in OutcomesFor(apiKey, ExplainerOutcomes) :
           \E random \in OneSuffix : ExplainerResumes(1, outcome, random)
    \/ Send

OfflineNext ==
    \/ /\ served < MaxOffline
       /\ \E body \in OfflineBodies : ExecutePipeline(1, body)
    \/ OfflineHandlers

OfflineSpec == HistoryInit /\ [][OfflineNext]_vars

RECURSIVE WellFormedNode(_)
WellFormedNode(n) ==
    /\ n.t = "object"
    /\ Get(n, Txt_id).t = "string" /\ Get(n, Txt_id).v # << >>
    /\ Get(n, Txt_component).t = "string"
    /\ Get(n, Txt_component).v \in Range(ALLOWED_COMPONENTS)
    /\ componentPropsValidators(Get(n, Txt_component).v, Get(n, Txt_props))
    /\ Get(n, Txt_children).t \in {"undefined", "array"}
    /\ Get(n, Txt_children).t = "array" =>
          /\ Get(n, Txt_children).v # << >> => Get(n, Txt_component).v \in {Txt_Card, Txt_Modal}
          /\ \A i \in 1..Len(Get(n, Txt_children).v) : WellFormedNode(Get(n, Txt_children).v[i])

WellFormedPlan(p) ==
    /\ p.t = "object"
    /\ Get(p, Txt_mode).t = "string" /\ Get(p, Txt_mode).v \in {Txt_stack, Txt_grid, Txt_split}
    /\ Get(p, Txt_root).t = "array" /\ Get(p, Txt_root).v # << >>
    /\ \A i \in 1..Len(Get(p, Txt_root).v) : WellFormedNode(Get(p, Txt_root).v[i])

(***************************************************************************)
(* C11: validatePlan gives a plan only for a payload whose mode is stack,  *)
(* grid or split, whose root is not empty, and whose nodes at every depth  *)
(* have a non-empty id, a component of the library, props of exactly the   *)
(* schema of the component, and children only under a Card or a Modal; for *)
(* any other payload it gives an error and no plan.                        *)
(***************************************************************************)
C11_ValidatePlanFailsClosed ==
    (call.fn = "validatePlan" /\ call.applied) =>
        /\ call.value.valid => (WellFormedPlan(call.input) /\ call.value.plan # Undefined)
        /\ ~WellFormedPlan(call.input) =>
              (~call.value.valid /\ call.value.plan = Undefined /\ call.value.error # << >>)

\* A plan whose only fault is two levels down, a Button with a key of the
\* Table inside a Card inside a Modal, has been refused.
C11_Witness ==
    /\ call.fn = "validatePlan"
    /\ call.applied
    /\ call.input = PlanWith(JStr(Txt_stack), << InModal(InCard(ButtonWithRows)) >>)
    /\ ~call.value.valid

RECURSIVE StructurallyEqual(_, _)
\* Equal as JSON values: the order of the keys of an object does not count.
StructurallyEqual(a, b) ==
    /\ a.t = b.t
    /\ CASE a.t = "object" ->
              /\ KeysOf(a) = KeysOf(b)
              /\ \A key \in KeysOf(a) : StructurallyEqual(Get(a, key), Get(b, key))
         [] a.t = "array" ->
              /\ Len(a.v) = Len(b.v)
              /\ \A i \in 1..Len(a.v) : StructurallyEqual(a.v[i], b.v[i])
         [] OTHER -> a.v = b.v

Revalidated == call.fn = "revalidate" /\ call.applied /\ call.value.first.valid

(***************************************************************************)
(* C12: a payload that validatePlan accepts, serialized, parsed and        *)
(* validated again, is accepted again, and the plan it gives is            *)
(* structurally equal to the payload.                                      *)
(***************************************************************************)
\* It fails for an accepted payload with a key that the schema of the plan or
\* of the node does not know: the plan validatePlan gives is without the key.
C12_RevalidationReturnsPayload ==
    Revalidated =>
        (call.value.again.valid /\ StructurallyEqual(call.value.again.plan, call.input))

CarriesForbiddenText(plan) ==
    \E text \in { Stringify(plan, 2, 0), Stringify(plan, 0, 0) } :
        \/ includes(text, Txt_styleOpen)
        \/ includes(text, Txt_dangerous)
        \/ test(badImport, text)

(***************************************************************************)
(* C14: runGenerator returns code only for a plan that passes validatePlan *)
(* and whose components, nested ones included, are all of the library, and *)
(* only code that passes the checks on generated code; in every other case *)
(* it throws and returns no code.                                          *)
(***************************************************************************)
C14_GeneratorReturnsOnlyCheckedCode ==
    (call.fn = "runGenerator" /\ call.applied) =>
        LET accepted == validatePlan(call.input).valid
        IN /\ call.value.ok =>
                 /\ accepted
                 /\ Range(FlatComponents(call.input)) \subseteq Range(ALLOWED_COMPONENTS)
                 /\ call.value.code # << >>
                 /\ CodeSafe(call.value.code)
           /\ ~call.value.ok => (call.value.code = << >> /\ call.value.error # << >>)
           /\ ~accepted => ~call.value.ok
           /\ (accepted /\ CarriesForbiddenText(call.input)) => ~call.value.ok
           /\ (accepted /\ ~CarriesForbiddenText(call.input)) => call.value.ok

\* A plan that validatePlan accepts and that carries an inline style in a
\* label has been refused by the check on the code.
C14_Witness ==
    /\ call.fn = "runGenerator"
    /\ call.applied
    /\ call.input = LabelledPlan(Txt_styleOpen)
    /\ ~call.value.ok
    /\ MatchAt(call.value.error, 1, Txt_safetyPrefix)

(***************************************************************************)
(* C15: parsePlanFromCode, applied to the code that runGenerator returns   *)
(* for a plan that validatePlan accepts, finds the plan again, whatever    *)
(* characters the strings of the plan hold.  It fails for a plan with a    *)
(* backtick in a string: the generator writes the backtick with a          *)
(* backslash before it, which is no escape of JSON, and a backtick before  *)
(* a semicolon ends the text that parsePlanFromCode takes.                 *)
(***************************************************************************)
C15_EmbeddedPlanIsRetrieved ==
    (call.fn = "parsePlanFromCode" /\ call.applied /\ call.value.generated.ok) =>
        /\ call.value.parsed.valid
        /\ StructurallyEqual(call.value.parsed.plan, call.input)

Replay(diff, kinds) ==
    LET kept == SelectSeq(diff, LAMBDA line : line.kind \in kinds)
    IN Join([k \in 1..Len(kept) |-> kept[k].text], << "\n" >>)

(***************************************************************************)
(* C16: of buildLineDiff(a, b), the texts of the entries of kind same or   *)
(* removed, in order and joined by line feeds, are a, and the texts of the *)
(* entries of kind same or added are b.                                    *)
(***************************************************************************)
C16_DiffRoundTrip ==
    (call.fn = "buildLineDiff" /\ call.applied) =>
        /\ \A k \in 1..Len(call.value) : call.value[k].kind \in {"same", "removed", "added"}
        /\ Replay(call.value, {"same", "removed"}) = call.input[1]
        /\ Replay(call.value, {"same", "added"}) = call.input[2]

\* A diff of two texts of three lines with entries of all three kinds.
C16_Witness ==
    /\ call.fn = "buildLineDiff"
    /\ call.applied
    /\ Len(SplitChar(call.input[1], "\n")) = 3
    /\ Len(SplitChar(call.input[2], "\n")) = 3
    /\ \A kind \in {"same", "removed", "added"} :
          \E k \in 1..Len(call.value) : call.value[k].kind = kind
    /\ call.value[Len(call.value)].kind = "added"

Kinds(plan) == Range(FlatComponents(plan))

C18_FilterNeverBlocks ==
    (call.fn = "filterPromptInjection" /\ call.applied) =>
        LET clean == call.value.clean
        IN /\ DOMAIN clean = 1..Len(clean)
           /\ \A i \in 1..Len(clean) : clean[i] \notin {"<", ">"}
           /\ Len(clean) > 0 => clean[1] \notin WhiteSpace /\ clean[Len(clean)] \notin WhiteSpace
           /\ call.value.flagged \in BOOLEAN

\* An input whose angle brackets stand outside its white space: removing
\* them uncovers white space at both ends, and the phrasing is flagged.
C18_Witness ==
    /\ call.fn = "filterPromptInjection"
    /\ call.applied
    /\ call.input = <<" ", "<">> \o Txt_system \o Space \o Txt_prompt \o <<">", "\n">>
    /\ call.value = [clean |-> Txt_system \o Space \o Txt_prompt, flagged |-> TRUE]

RECURSIVE NodesUnder(_)
\* A node and the nodes below it.
NodesUnder(node) ==
    LET kids == ChildrenOf(node)
        nested[i \in 0..Len(kids)] ==
            IF i = 0 THEN << >> ELSE nested[i - 1] \o NodesUnder(kids[i])
    IN << node >> \o nested[Len(kids)]

\* The nodes of a plan, at every depth.
PlanNodes(plan) ==
    LET root == Get(plan, Txt_root).v
        flat[i \in 0..Len(root)] ==
            IF i = 0 THEN << >> ELSE flat[i - 1] \o NodesUnder(root[i])
    IN flat[Len(root)]

ModalCount(plan) ==
    Cardinality({ i \in 1..Len(PlanNodes(plan)) : IsComponent(PlanNodes(plan)[i], Txt_Modal) })

RECURSIVE ApartFromNavbars(_)
\* A node with the props of every Navbar in it blanked, so that two nodes
\* that differ only in the props of Navbar nodes compare equal.
ApartFromNavbars(node) ==
    LET kids == ChildrenOf(node)
        self == IF IsComponent(node, Txt_Navbar) THEN Put(node, Txt_props, JNull) ELSE node
    IN IF Len(kids) = 0 THEN self
       ELSE Put(self, Txt_children, JArr([i \in 1..Len(kids) |-> ApartFromNavbars(kids[i])]))

\* C19: modifying a prior plan with an intent that has minimalism phrasing
\* and settings-modal phrasing, the oracle unavailable, gives a plan of mode
\* stack in which every Navbar node has the links Home and Settings, with
\* one Modal node appended at the end when the prior plan holds no Modal
\* node and none appended when it holds one, and with the other prior nodes
\* in their order with their props.
C19_MinimalSettingsMerge ==
    (call.fn = "mergeModification" /\ call.applied
     /\ call.input.intent \in MinimalSettingsIntents) =>
        LET prior == Get(call.input.priorPlan, Txt_root).v
            root == Get(call.value.plan, Txt_root).v
            nodes == PlanNodes(call.value.plan)
            extra == IF ModalCount(call.input.priorPlan) = 0 THEN 1 ELSE 0
        IN /\ Get(call.value.plan, Txt_mode) = JStr(Txt_stack)
           /\ \A i \in 1..Len(nodes) :
                  IsComponent(nodes[i], Txt_Navbar) =>
                      Get(Get(nodes[i], Txt_props), Txt_links) = StrList(<<Txt_Home, Txt_Settings>>)
           /\ Len(root) = Len(prior) + extra
           /\ extra = 1 => IsComponent(root[Len(root)], Txt_Modal)
           /\ ModalCount(call.value.plan) = ModalCount(call.input.priorPlan) + extra
           /\ \A i \in 1..Len(prior) : ApartFromNavbars(root[i]) = ApartFromNavbars(prior[i])

\* The codes of the findings of a report.
FindingCodes(report) == { report.findings[i].code : i \in 1..Len(report.findings) }

\* The penalty of a finding, by its code.
Penalty(code) ==
    CASE code = Txt_dangerous_html -> 50
      [] code = Txt_inline_style -> 30
      [] code = Txt_dynamic_class -> 10
      [] code = Txt_illegal_component -> 40
      [] code = Txt_missing_component -> 15
      [] OTHER -> 0

PenaltyCodes ==
    { Txt_dangerous_html, Txt_inline_style, Txt_dynamic_class, Txt_illegal_component,
      Txt_missing_component }

RECURSIVE PenaltySum(_)
PenaltySum(codes) ==
    IF codes = {} THEN 0
    ELSE LET c == CHOOSE x \in codes : TRUE IN Penalty(c) + PenaltySum(codes \ {c})

\* C20: analyzeGeneratedCode returns a report whose score is 100 less the
\* penalties of the findings present (50, 30, 10, 40, 15, each at most once),
\* and 0 when that is negative, so an integer from 0 to 100; the finding
\* "clean" is present exactly when no finding with a penalty is, and then
\* the score is 100.
C20_ScoreIsFlooredSum ==
    (call.fn = "analyzeGeneratedCode" /\ call.applied) =>
        LET report == call.value
            codes == FindingCodes(report)
            sum == PenaltySum(codes \cap PenaltyCodes)
        IN /\ Cardinality(codes) = Len(report.findings)
           /\ codes \subseteq PenaltyCodes \cup { Txt_cleanCode }
           /\ report.score = (IF 100 - sum < 0 THEN 0 ELSE 100 - sum)
           /\ report.score \in 0..100
           /\ (Txt_cleanCode \in codes) <=> (codes \cap PenaltyCodes = {})
           /\ Txt_cleanCode \in codes => report.score = 100

\* Code with all five findings: the penalties add up to 145 and the score
\* is 0.
C20_Witness ==
    /\ call.fn = "analyzeGeneratedCode"
    /\ call.applied
    /\ FindingCodes(call.value) = PenaltyCodes
    /\ call.value.score = 0

\* The kind is among the top-level nodes of the plan or among their
\* immediate children.
Present(kind, plan) ==
    \E i \in 1..Len(Get(plan, Txt_root).v) :
        \/ IsComponent(Get(plan, Txt_root).v[i], kind)
        \/ HasChild(Get(plan, Txt_root).v[i], kind)

\* The top-level nodes of the returned plan after those of the prior plan.
AppendedNodes(input, plan) ==
    SubSeq(Get(plan, Txt_root).v, Len(Get(input.priorPlan, Txt_root).v) + 1,
           Len(Get(plan, Txt_root).v))

\* The call modifies with add, include or insert phrasing and without
\* conversion phrasing.
AddsByPhrasing ==
    /\ call.fn = "mergeModification"
    /\ call.applied
    /\ call.value.path = "merge"
    /\ test(addPattern, toLowerCase(filterPromptInjection(call.input.intent).clean))
    /\ ~test(convertPattern, toLowerCase(filterPromptInjection(call.input.intent).clean))

\* C21: in a modification with add, include or insert phrasing, a Chart, a
\* Card with a Table or a Card with an Input and a Button is appended only
\* if the kind is not already in the prior plan, among the top-level nodes
\* or among their immediate children.
\* It fails for a prior plan whose Chart is the child of a Card, and for one
\* whose Input is a top-level node: the code looks for a Chart at the top
\* level only and for an Input among the children only.
C21_AddsOnlyMissingKinds ==
    AddsByPhrasing =>
        \A kind \in { Txt_Chart, Txt_Table, Txt_Input } :
            Present(kind, call.input.priorPlan) =>
                \A i \in 1..Len(AppendedNodes(call.input, call.value.plan)) :
                    LET node == AppendedNodes(call.input, call.value.plan)[i]
                    IN IsComponent(node, Txt_Modal)
                       \/ (~IsComponent(node, kind) /\ ~HasChild(node, kind))

\* The call went through mergeModification; Cleaned is the text runPlanner
\* passes to it.
Modified == call.fn = "mergeModification" /\ call.applied /\ call.value.path = "merge"
Cleaned == filterPromptInjection(call.input.intent).clean
Converts == test(convertPattern, toLowerCase(Cleaned))

\* C22 as stated: whatever branch of the modification fired, the plan's
\* modificationInstructions is the cleaned intent text itself.
\* It fails in the conversion branch, which writes the text after a prefix.
C22_InstructionsAreTheIntent ==
    Modified => Get(call.value.plan, Txt_modificationInstructions) = JStr(Cleaned)

\* C22: whatever branch of the modification fired, the plan's
\* modificationInstructions holds the cleaned intent text: it is that text,
\* and in the conversion branch that text after "Converted UI based on
\* request: ".
C22_InstructionsRecordTheIntent ==
    Modified =>
        Get(call.value.plan, Txt_modificationInstructions) =
            JStr(IF Converts THEN Txt_ConvertedPrefix \o Cleaned ELSE Cleaned)

\* A conversion of a prior plan has recorded its intent after the prefix.
C22_Witness ==
    /\ Modified
    /\ Converts
    /\ Get(call.value.plan, Txt_modificationInstructions)
           = JStr(Txt_ConvertedPrefix \o call.input.intent)

\* How often x stands in t.
CountOf(t, x) == Cardinality({ i \in 1..Len(t) : t[i] = x })

EndsWith(s, tail) ==
    Len(s) >= Len(tail) /\ SubSeq(s, Len(s) - Len(tail) + 1, Len(s)) = tail

\* The input runPlanner gets from the handler of a request.
PlannerInputOf(p) ==
    [intent |-> p.intent,
     priorPlan |-> IF p.action = Txt_modify /\ p.base # 0 THEN versions[p.base].plan
                   ELSE Undefined,
     regenerateFromScratch |-> p.action = Txt_regenerate]

\* The plan is one the oracle can have sent and the planner accepted.
OraclePlanFor(input, plan) ==
    /\ apiKey
    /\ \E t \in PlannerReplies :
           /\ runPlanner(input, JStr(t), now).path = "llm"
           /\ runPlanner(input, JStr(t), now).plan = plan

\* The step of a handler that resumes from an await of the oracle.
C23_Step ==
    \A r \in Requests :
        LET p == procs[r]
            q == procs'[r]
        IN /\ (p.pc = "planner_await" /\ q # p) =>
                /\ q.pc \in {"explainer_await", "idle"}
                /\ q.pc = "explainer_await" =>
                       /\ q.trace = SubSeq(FullTrace, 1, 7)
                       /\ \/ OraclePlanFor(PlannerInputOf(p), q.plan)
                          \/ q.plan = runPlanner(PlannerInputOf(p), JNull, now).plan
                /\ q.pc = "idle" => (out' # out /\ CountOf(out'.trace, "oracle") = 1)
           /\ (p.pc = "explainer_await" /\ q # p) =>
                /\ q.pc = "idle"
                /\ out' # out
                /\ CountOf(out'.trace, "oracle") = 2
                /\ Delivered(out') # << >> =>
                       /\ out'.trace = FullTrace
                       /\ \E text \in ExplainerReplies \cup
                              { runExplainer([plan |-> p.plan,
                                              isModification |-> p.action = Txt_modify
                                                                    /\ p.base # 0],
                                             JNull).explanation } :
                              EndsWith(Delivered(out')[1].explanation, text)

(***************************************************************************)
(* C23: in one run of the pipeline the planner calls the oracle at most    *)
(* once and the explainer at most once; after an answer that is missing,   *)
(* no JSON or no valid plan the stage goes on with its deterministic       *)
(* result and does not call the oracle again, and the stages keep their    *)
(* order.                                                                  *)
(***************************************************************************)
C23_NoRetry == [][C23_Step]_vars

\* With credentials set, the oracle gave the planner nothing usable and the
\* request was answered with the plan of the deterministic planner after
\* two calls of the oracle.
C23_Witness ==
    /\ apiKey
    /\ Delivered(out) # << >>
    /\ out.trace = FullTrace
    /\ CountOf(out.trace, "oracle") = 2
    /\ Delivered(out)[1].action = Txt_generate
    /\ Delivered(out)[1].plan = buildIntentAwarePlan(Txt_card)

(***************************************************************************)
(* C24: the lineage is a chain: in every state of the store the            *)
(* baseVersionId of a snapshot, when it has one, is the id of a snapshot   *)
(* appended strictly earlier, so that the links from any snapshot end      *)
(* after finitely many steps; for snapshots of generate, modify,           *)
(* regenerate and replay alike.                                            *)
(***************************************************************************)
C24_LineageIsAChain ==
    \A k \in 1..Len(versions) :
        Truthy(versions[k].baseVersionId) =>
            /\ \E j \in 1..(k - 1) : versions[j].id = versions[k].baseVersionId.v
            /\ get(versions, versions[k].baseVersionId.v) \in 1..(k - 1)

\* A modification of the first snapshot and a replay of that modification:
\* both name the first snapshot as their base.
C24_Witness ==
    /\ Len(versions) = 3
    /\ versions[2].action = Txt_modify
    /\ Truthy(versions[2].baseVersionId)
    /\ get(versions, versions[2].baseVersionId.v) = 1
    /\ MatchAt(versions[3].explanation, 1, Txt_replayOpen)
    /\ versions[3].baseVersionId = versions[2].baseVersionId

\* The step in which the handler of a request appends its snapshot.
C25_Step ==
    \A r \in Requests :
        (procs[r].pc = "explainer_await" /\ Len(versions') = Len(versions) + 1
         /\ procs'[r] # procs[r]) =>
            LET p == procs[r]
                v == versions'[Len(versions')]
            IN /\ v.action \in { Txt_generate, Txt_regenerate } => ~Truthy(v.baseVersionId)
               /\ v.action = Txt_modify =>
                      IF p.base = 0 THEN ~Truthy(v.baseVersionId)
                      ELSE v.baseVersionId = JStr(versions[p.base].id)

\* C25: a stored snapshot has a baseVersionId only when its plan was
\* derived from the snapshot it names: a snapshot of a modify request names
\* the snapshot whose plan went to the planner as prior plan, and a
\* snapshot of a generate or regenerate request, which has no prior plan,
\* has no baseVersionId.
\* It fails for a generate request sent when the store is not empty: the
\* handler records the id of the latest snapshot whatever the action.
C25_BaseOnlyWhenDerived == [][C25_Step]_vars

\* The component kinds of a plan, those of nested children included, each
\* once, in the order they are first seen, joined as the explanation joins.
KindsNamed(plan) == Join(Uniq(FlatComponents(plan)), Txt_commaSpace)

\* C26: with the oracle unavailable the explanation of runExplainer is not
\* empty, names every component kind used in the plan, nested children
\* included, once each in first-seen order, and says "incremental edit"
\* exactly when isModification is true; when the oracle answers, its text is
\* the explanation.
\* It fails for a plan with a kind that only a child has: the fallback
\* names the kinds of the top-level nodes only.
C26_FallbackNamesEveryKind ==
    (call.fn = "runExplainer" /\ call.applied) =>
        IF Truthy(call.input.llm)
        THEN call.value.explanation = call.input.llm.v
        ELSE /\ call.value.explanation # << >>
             /\ includes(call.value.explanation,
                         Txt_selection \o KindsNamed(call.input.plan) \o Txt_selectionTail)
             /\ includes(call.value.explanation,
                         <<"i","n","c","r","e","m","e","n","t","a","l"," ","e","d","i","t">>)
                    <=> call.input.isModification

\* The place of a top-level node in the order of full synthesis: Navbar,
\* Sidebar, Card, Card around a Table, Chart, Modal; 0 for any other node.
Slot(node) ==
    CASE IsComponent(node, Txt_Navbar) -> 1
      [] IsComponent(node, Txt_Sidebar) -> 2
      [] IsComponent(node, Txt_Card) /\ ~HasChild(node, Txt_Table) -> 3
      [] IsComponent(node, Txt_Card) /\ HasChild(node, Txt_Table) -> 4
      [] IsComponent(node, Txt_Chart) -> 5
      [] IsComponent(node, Txt_Modal) -> 6
      [] OTHER -> 0

\* The component names of the top-level nodes, in order.
RootKinds(plan) ==
    [i \in 1..Len(Get(plan, Txt_root).v) |-> Get(Get(plan, Txt_root).v[i], Txt_component).v]

\* No step of full synthesis produces a node for the cleaned intent.
NothingProduced(intent) ==
    /\ inferRequestedComponents(intent)
           \cap { Txt_Navbar, Txt_Sidebar, Txt_Card, Txt_Table, Txt_Chart, Txt_Modal } = {}
    /\ ~IsAuthText(toLowerCase(intent))
    /\ ~test(Regex(BWords(<<Txt_settings, Txt_preferences>>)), toLowerCase(intent))

\* A Card whose children are one Button.
FallbackCard(node) ==
    /\ IsComponent(node, Txt_Card)
    /\ Len(ChildrenOf(node)) = 1
    /\ IsComponent(ChildrenOf(node)[1], Txt_Button)

\* C27: full synthesis returns, for every intent, a plan whose root is not
\* empty and whose top-level nodes come in the order Navbar, Sidebar, Card
\* (authentication or controls), Card around a Table, Chart, Modal, each at
\* most once; when none of them is produced the root is one fallback Card
\* with one Button child; for "Create a dashboard with navbar, sidebar, card
\* and chart" the root kinds are Navbar, Sidebar, Card, Chart and the mode
\* is split.
C27_FullSynthesisOrder ==
    call.fn = "runPlannerRepeat" =>
        \A k \in 1..Len(call.value.plans) :
            LET plan == call.value.plans[k]
                root == Get(plan, Txt_root).v
                clean == filterPromptInjection(call.input.intent).clean
            IN /\ Len(root) > 0
               /\ \A i \in 1..Len(root) : Slot(root[i]) > 0
               /\ \A i \in 1..Len(root) - 1 : Slot(root[i]) < Slot(root[i + 1])
               /\ NothingProduced(clean) => (Len(root) = 1 /\ FallbackCard(root[1]))
               /\ call.input.intent = FirstIntent =>
                      /\ RootKinds(plan) = << Txt_Navbar, Txt_Sidebar, Txt_Card, Txt_Chart >>
                      /\ Get(plan, Txt_mode) = JStr(Txt_split)

\* The plan for the intent of the example: four top-level nodes in the
\* order of the synthesis.
C27_Witness ==
    /\ call.fn = "runPlannerRepeat"
    /\ call.input.intent = FirstIntent
    /\ Len(call.value.plans) > 0
    /\ RootKinds(call.value.plans[1]) = << Txt_Navbar, Txt_Sidebar, Txt_Card, Txt_Chart >>

\* C28: with the oracle unavailable, every generate, modify or regenerate
\* request with an intent that is not empty completes all its stages and
\* stores one snapshot, whatever the intent holds: no such request ends
\* with anything but the snapshot it appended, after all the stages.
\* It fails for a modify request whose intent holds the text of an inline
\* style: the plan records the intent in modificationInstructions, the
\* generated code embeds the plan, and the check on the code refuses it.
C28_EveryRequestIsStored ==
    (out.route = "agent" /\ ~Blank(out.input)) =>
        /\ Delivered(out) # << >>
        /\ out.trace = FullTrace
        /\ versions # << >>
        /\ Delivered(out)[1] = versions[Len(versions)]

\* C29: filterPromptInjection flags every input whose cleaned text matches
\* a suspicious pattern: flagged is never false while the clean string holds
\* one of the suspicious phrases.
\* It fails for a phrase with angle brackets inside it: the patterns are
\* tested on the input as it came, and the brackets are removed afterwards.
C29_SuspiciousCleanTextIsFlagged ==
    (call.fn = "filterPromptInjection" /\ call.applied) =>
        ((\E i \in 1..Len(suspiciousPatterns) : test(suspiciousPatterns[i], call.value.clean))
             => call.value.flagged)

\* C30: a modification is idempotent: with the oracle unavailable, the
\* intent applied to the plan that the same intent produced returns that
\* plan, with the same mode, the same nodes, ids and props in the same
\* order and the same modificationInstructions, for the minimal, settings
\* modal, conversion and add branches and their combinations.
C30_ModificationIsIdempotent ==
    Modified => (call.value.again.path = "merge" /\ call.value.again.plan = call.value.plan)

\* An intent with add phrasing that appended a Card with a Table to the
\* prior plan, applied again at a later reading of the clock, has appended
\* nothing more.
C30_Witness ==
    /\ Modified
    /\ test(addPattern, toLowerCase(Cleaned))
    /\ ~Converts
    /\ Len(AppendedNodes(call.input, call.value.plan)) > 0
    /\ \E i \in 1..Len(AppendedNodes(call.input, call.value.plan)) :
           HasChild(AppendedNodes(call.input, call.value.plan)[i], Txt_Table)
    /\ call.value.again.plan = call.value.plan

====
